---- MODULE Spec2Model ----
(***************************************************************************)
(* The resilient API client of src/services/service.apiSW.ts (class APIsw  *)
(* and the module-level helpers around it): consent gate, health gate,     *)
(* per-endpoint circuit breaker, global request block, global 503 flag,    *)
(* the two pending-request registries, rate limiting and the failure       *)
(* notifier, the retries with backoff, the cached getters over             *)
(* util/apiCache; and the page caches of the home and about pages.         *)
(*                                                                         *)
(* Execution is the JavaScript event loop: one action is one task (a call  *)
(* issued by synchronous code, a network response, a timer) run up to its  *)
(* next suspension point, together with every promise continuation it      *)
(* triggers.  Time is Date.now() in milliseconds.                          *)
(***************************************************************************)
EXTENDS Integers, Sequences, FiniteSets, TLC

\* ---------------------------------------------------------------- bounds
NavHorizon == 300200       \* modelled time span of the navigation loader in ms
MaxNavRuns == 3            \* runs of the navigation effect in one behaviour
NavWindow == 1             \* 1 ms steps are taken this long after each 5 min mark
JwtHorizon == 2            \* ms of modelled time around the expiry of a token
MaxGlobalChecks == 2    \* health checks performGlobalHealthCheck can start
MaxThrottleCalls == 3   \* calls of getServices in the rate-limiting behaviours
MaxFlowCalls == 2       \* health checks the health middleware can start
MaxLogoutCalls == 2     \* client calls in the behaviours of logout
MaxLoaderCalls == 3     \* slots for the calls of one page-data loader
MaxCalls == 2          \* number of client calls issued in one behaviour
T0 == 1000000          \* Date.now() at construction (far from timestamp 0)
MaxElapsed == 32000    \* modelled time span in ms
SmallWindow == 1000    \* 1 s steps are taken this long after each 30 s mark
SmallStep == 1000
BigStep == 30000
MaxTimeouts == 1       \* fetches answered with a retryable error
MaxNotifierOps == 4    \* direct calls of the notifier in one behaviour
NotifierHorizon == 10000  \* time span of the notifier behaviours in ms
NotifierWindow == 1    \* 1 ms steps are taken this long after each cooldown mark
MaxCacheCalls == 3     \* number of getLocations calls in one behaviour
CacheHorizon == 900001 \* time span of the response-cache behaviours in ms
CacheWindow == 1       \* 1 ms steps are taken this long after each 15 min mark
PageHorizon == 600001  \* time span of the page-cache behaviours in ms
PageWindow == 1        \* 1 ms steps are taken this long after each 5 min mark

\* ------------------------------------------------------ program constants
MIN_REQUEST_INTERVAL == 1000
healthCheckCooldown == 30000
endpointCooldown == 60000
globalBlockCooldown == 30000
modalCooldown == 5000
pendingRequestTimeout == 30000
healthCacheTtl == 30000
locationsCacheTtl == 900000

\* RETRY_CONFIG
maxRetries == 3
baseDelay == 1000
maxDelay == 10000
\* Math.random() * 1000, the jitter added to a backoff delay
Jitters == {0}

HEALTH == "/v0/health"
SERVICES == "/v0/services"
SERVICE_AREAS == "/v0/serviceAreas"
LOCATIONS == "/v0/locations"
LOGOUT == "/auth/logout"
Endpoints == {HEALTH, SERVICES, SERVICE_AREAS, LOCATIONS, LOGOUT}
\* the keys the cached getters of this model use in util/apiCache
CacheKeys == {HEALTH, LOCATIONS}
\* the endpoints the client's methods pass to makeRequest (getServices, ...)
\* and to makePublicRequest (getServiceAreas); '/v0/health' is requested by
\* checkHealth only
RequestEndpoints == {SERVICES}
PublicRequestEndpoints == {SERVICE_AREAS}

\* RequestInit values the callers pass: these methods pass none
NoOptions == [method |-> "", body |-> ""]
Options == {NoOptions}
\* ... and logout passes { method: 'POST' }
LogoutOptions == [method |-> "POST", body |-> ""]

\* what the backend can answer to one fetch: a 2xx with a JSON body, a 503
\* (a real one, or the mock 503 Response built for a connection failure or a
\* redirect), a non-2xx status whose Error is not retryable (HTTP 500) ...
Responses == {"ok", "s503", "err"}
\* ... and a non-2xx status whose Error is (HTTP 504: Gateway Timeout)
RetryableResponses == {"timeout"}

NoCall == 0

\* JSON.stringify of a string body: the body in double quotes
JSONstringify(body) == "\"" \o body \o "\""

getRequestKey(endpoint, options) ==
    LET method == IF options.method = "" THEN "GET" ELSE options.method
        body == IF options.body = "" THEN "" ELSE JSONstringify(options.body)
    IN  method \o ":" \o endpoint \o ":" \o body

Keys == {getRequestKey(e, o) : e \in Endpoints, o \in Options}
        \cup {getRequestKey(LOGOUT, LogoutOptions)}

\* the listeners the components register; one of them throws when called
Listeners == {"onModalChange", "throwing"}
ThrowingListeners == {"throwing"}
\* the onClose argument of showApiFailureModal: absent, or a callback
NoCallback == "null"
Callbacks == {NoCallback, "onClose"}
\* the lists of failed endpoints the callers pass
FailedLists == {<<SERVICES>>, <<SERVICES, HEALTH, SERVICES>>}
NoModal == [isVisible |-> FALSE, failedEndpoints |-> <<>>, is503Error |-> FALSE,
            onClose |-> NoCallback]
NoneNotified == [called |-> <<>>, uncaught |-> FALSE]

NoTimer == [key |-> "", at |-> 0, by |-> NoCall]
NoEntry == [val |-> "none", at |-> 0, ttl |-> 0]

VARIABLES
    now,                    \* Date.now()
    global503Status,        \* module-level flag
    pendingRequests,        \* module-level registry: key -> call owning the fetch
    requestTimestamps,      \* module-level rate-limit map: endpoint -> time
    isApiBlocked,           \* APIsw.isApiBlocked
    apiIsDown, healthCheckInProgress, lastHealthCheckTime,
    failedEndpoints, endpointFailureTimes,
    globalRequestBlocked, globalBlockTime,
    modalState, lastModalShowTime,
    modalStateListeners,    \* APIsw.modalStateListeners, in insertion order
    notified,               \* the listeners invoked by the running operation
    instPending,            \* APIsw.pendingRequests: key -> call owning the promise
    requestTimeouts,        \* APIsw.requestTimeouts: key -> timer handle
    timers,                 \* live setTimeout callbacks of addPendingRequest
    pageApiCalls,           \* APIsw.pageApiCalls
    apiCache,               \* util/apiCache: cache key -> entry
    calls,                  \* the client calls and where each one is suspended
    hist,                   \* observations: what happened, for the properties
    backoffRun,             \* one run of retryWithBackoff(fn, context)
    pageCache,              \* HomePageCache.cache and AboutPageCache.cache
    pageRead,               \* the last get() of a page cache and what it returned
    pageLoad,               \* one run of getHomePageData / getAboutPageData
    jwtAuth,                \* JWTAuthManager: its token, and the localStorage item
    jwtRead,                \* the last access to the token and what it yielded
    envSources,             \* the configuration sources getEnvVar reads
    envConfig,              \* ENV_CONFIG, once the module is loaded
    navStore,               \* sessionStorage item 'packmovego-nav-data'
    navLoad,                \* the navigation load effect of Navbar
    globalCheck,            \* global503CheckPromise and the checks behind it
    healthFlow,             \* healthStatus / healthCheckTime of the client, and
                            \* one run of withHealthCheck or of a route handler
    logoutRun               \* one run of logout()

Calls == DOMAIN calls

\* the variables of the API client, but the clock
client == <<global503Status, pendingRequests, requestTimestamps, isApiBlocked,
            apiIsDown, healthCheckInProgress, lastHealthCheckTime, failedEndpoints,
            endpointFailureTimes, globalRequestBlocked, globalBlockTime, modalState,
            lastModalShowTime, modalStateListeners, notified,
            instPending, requestTimeouts, timers, pageApiCalls,
            apiCache, calls, hist>>

\* the variables of the components that are modelled on their own
\* ... of which those of the page-level components
loaderVars == <<pageLoad>>
jwtVars == <<jwtAuth, jwtRead>>
envVars == <<envSources, envConfig>>
navVars == <<navStore, navLoad>>
flowVars == <<globalCheck, healthFlow, logoutRun>>
components == <<loaderVars, jwtVars, envVars, navVars, flowVars>>
standalone == <<backoffRun, pageCache, pageRead, components>>

vars == <<now, global503Status, pendingRequests, requestTimestamps, isApiBlocked,
          apiIsDown, healthCheckInProgress, lastHealthCheckTime, failedEndpoints,
          endpointFailureTimes, globalRequestBlocked, globalBlockTime, modalState,
          lastModalShowTime, modalStateListeners, notified,
          instPending, requestTimeouts, timers, pageApiCalls,
          apiCache, calls, hist, standalone>>

\* the whole state as one record, threaded through the operators below the
\* way the code threads `this` and the module variables through its calls
State ==
    [now |-> now, global503Status |-> global503Status,
     pendingRequests |-> pendingRequests, requestTimestamps |-> requestTimestamps,
     isApiBlocked |-> isApiBlocked, apiIsDown |-> apiIsDown,
     healthCheckInProgress |-> healthCheckInProgress,
     lastHealthCheckTime |-> lastHealthCheckTime,
     failedEndpoints |-> failedEndpoints,
     endpointFailureTimes |-> endpointFailureTimes,
     globalRequestBlocked |-> globalRequestBlocked,
     globalBlockTime |-> globalBlockTime, modalState |-> modalState,
     lastModalShowTime |-> lastModalShowTime,
     modalStateListeners |-> modalStateListeners, notified |-> notified,
     instPending |-> instPending,
     requestTimeouts |-> requestTimeouts, timers |-> timers,
     pageApiCalls |-> pageApiCalls, apiCache |-> apiCache,
     calls |-> calls, hist |-> hist]

CommitClient(g) ==
    /\ now' = g.now
    /\ global503Status' = g.global503Status
    /\ pendingRequests' = g.pendingRequests
    /\ requestTimestamps' = g.requestTimestamps
    /\ isApiBlocked' = g.isApiBlocked
    /\ apiIsDown' = g.apiIsDown
    /\ healthCheckInProgress' = g.healthCheckInProgress
    /\ lastHealthCheckTime' = g.lastHealthCheckTime
    /\ failedEndpoints' = g.failedEndpoints
    /\ endpointFailureTimes' = g.endpointFailureTimes
    /\ globalRequestBlocked' = g.globalRequestBlocked
    /\ globalBlockTime' = g.globalBlockTime
    /\ modalState' = g.modalState
    /\ lastModalShowTime' = g.lastModalShowTime
    /\ modalStateListeners' = g.modalStateListeners
    /\ notified' = g.notified
    /\ instPending' = g.instPending
    /\ requestTimeouts' = g.requestTimeouts
    /\ timers' = g.timers
    /\ pageApiCalls' = g.pageApiCalls
    /\ apiCache' = g.apiCache
    /\ calls' = g.calls
    /\ hist' = g.hist

Commit(g) == CommitClient(g) /\ UNCHANGED standalone

IdleCall ==
    [pc |-> "idle", api |-> "none", ep |-> HEALTH, opt |-> NoOptions,
     lvl |-> "main", st |-> "none", on |-> NoCall, wake |-> 0, gate |-> "none",
     attempt |-> 0, healthAttempt |-> 0,
     res |-> "none", val |-> NoCall, net |-> FALSE, probed |-> FALSE,
     refused |-> FALSE, sent |-> 0, got |-> {},
     requireAuth |-> FALSE, \* the requireAuth argument of makeRequest
     bearer |-> FALSE,      \* the call's own fetch carried the Authorization header
     hit |-> FALSE,         \* a cached getter answered from the cache
     at |-> 0,              \* when the cached getter was called
     wiped |-> FALSE,       \* the cache was cleared after the call
     pre |-> [consent |-> FALSE, inWindow |-> FALSE, recover |-> FALSE,
              cleared |-> FALSE, conc |-> {}]]

\* the page caches: `new Map()` of {data, timestamp} per key
PageCaches == {"HomePageCache", "AboutPageCache"}
PageKeys == {"nav", "about"}
\* the data the pages store under each key
PageData(k) == IF k = "nav" THEN {"d1"} ELSE {"d2"}
HOME_CACHE_DURATION == 300000
ABOUT_CACHE_DURATION == 600000
CACHE_DURATION(p) ==
    IF p = "HomePageCache" THEN HOME_CACHE_DURATION ELSE ABOUT_CACHE_DURATION
NoPage == [data |-> "null", timestamp |-> 0]
NoRead == [cache |-> "", key |-> "", ret |-> "null", at |-> 0,
           before |-> NoPage, after |-> NoPage]

\* retryWithBackoff before it is called
NoRun ==
    [phase |-> "idle",      \* idle / calling (awaiting fn) / waiting / returned / thrown
     attempt |-> 0,         \* the loop variable
     lastError |-> <<>>,    \* <<kind, attempt that threw it>>
     delay |-> 0, failedAt |-> 0, wake |-> 0,
     out |-> <<>>,          \* what the caller receives
     invoked |-> 0,         \* invocations of fn so far
     waits |-> 0,           \* backoff waits started so far
     errs |-> <<>>]         \* the errors fn threw, in order

\* the page-data loaders before they are called
NoLoad == [pc |-> "idle",       \* idle / health / calls / done
           page |-> "none",
           shown |-> FALSE]     \* the loader's showApiFailureModal took effect

\* JWTAuthManager before getInstance() constructs it, with nothing stored
NoToken == [token |-> "null", expiresAt |-> 0]
NoAuth == [instance |-> FALSE, token |-> NoToken, stored |-> NoToken]
NoAccess == [op |-> "none", ret |-> "null", at |-> 0,
             before |-> NoAuth, after |-> NoAuth]

\* the configuration sources of getEnvVar, in its order of priority, and the
\* two keys API_URL is read from; strings are sequences of characters
EnvPlaces == <<"import.meta.env", "process.env", "window.__KEY__", "window.__VITE_ENV__">>
EnvKeys == <<"VITE_API_URL", "VITE_API_BASE_URL">>
NoSources == [window |-> FALSE, process |-> FALSE,
              vars |-> [k \in 1..Len(EnvKeys) |-> [p \in 1..Len(EnvPlaces) |-> <<>>]]]
NotLoaded == [loaded |-> FALSE, API_URL |-> <<>>]

\* sessionStorage without the navigation item, and Navbar before its effect
NoItem == [kind |-> "absent", items |-> "none", timestamp |-> 0]
NoGlobalCheck ==
    [promise |-> NoCall,    \* global503CheckPromise: null, or the check it is of
     value |-> "none",      \* that promise: none / pending / true / false
     awaiting |-> {},       \* the checkHealth calls awaited by a check's body
     found |-> "none",      \* what the last caller found in global503CheckPromise
     fresh |-> FALSE]       \* the last caller started a health check

NoHealthFlow ==
    [healthStatus |-> "unknown", healthCheckTime |-> 0,
     pc |-> "idle",         \* idle / health (awaiting checkHealth) / done
     kind |-> "none",       \* withHealthCheck / route
     allRoutes |-> <<>>,    \* the allRoutes argument of withHealthCheck
     at |-> 0,              \* `now` of checkHealthWithCache
     slot |-> NoCall,       \* the checkHealth call it awaits, if it made one
     isHealthy |-> FALSE,   \* what checkHealthWithCache returned
     invoked |-> FALSE,     \* apiCall / the service controller was invoked
     rejected |-> FALSE,    \* the run rejected
     status |-> 0,          \* res.statusCode, 0 while unset
     nextErr |-> FALSE,     \* next was called with an error
     asked |-> <<>>,        \* the endpoints passed to showApiFailureModal
     asked503 |-> FALSE]    \* ... and its is503Error argument

NoLogout ==
    [pc |-> "idle",         \* idle / await (the logout request) / done
     slot |-> NoCall,       \* the makeRequest call it awaits
     had |-> FALSE,         \* a token was held when logout was called
     rejected |-> FALSE,    \* logout() rejected
     authed |-> "false"]    \* isAuthenticated() right after it settled

NoNav == [pc |-> "idle",        \* idle / delay / calling / done
          navItems |-> "none",  \* none / fallback / the items of an answer
          isLoading |-> TRUE,
          wake |-> 0,           \* when the 100 ms delay ends
          read |-> NoItem,      \* the item the effect found
          at |-> 0,             \* when the effect ran
          blocked |-> FALSE,    \* isApiBlocked when the effect ran
          apiCalls |-> 0,       \* calls of getMainNavigation
          resets |-> 0,         \* calls of resetHealthGate
          runs |-> 0,           \* runs of the effect so far
          got |-> "none",       \* how getMainNavigation settled
          wrote |-> FALSE]      \* the effect rewrote the item

\* no call of the notifier yet
NoOp == [kind |-> "none", n |-> 0, eps |-> <<>>, is503 |-> FALSE,
         onClose |-> NoCallback,
         closed |-> 0]      \* invocations of the close callback by the call


\* a fetch of executeRequestWithDeduplication to endpoint starts now
startObserved(g, endpoint) ==
    [g EXCEPT !.hist.lastStart[endpoint] = g.now,
              !.hist.lastGap[endpoint] =
                  IF g.hist.lastStart[endpoint] = 0 THEN @
                  ELSE {g.now - g.hist.lastStart[endpoint]}]

NoHist ==
    [downAt |-> 0,          \* when the health gate last found the backend down
     everFailed |-> FALSE,  \* some fetch was answered with a non-2xx status
     everReset |-> FALSE,   \* resetHealthGate was called
     timeouts |-> 0,        \* fetches answered with a retryable error
     notifierOp |-> NoOp,   \* the last direct call of the notifier
     lastStart |-> [e \in Endpoints |-> 0],   \* when the last rate-limited
                            \* fetch to the endpoint started
     lastGap |-> [e \in Endpoints |-> {}]]    \* the time between the last two,
                            \* once there are two

\* the state after construction, with room for n client calls
InitWith(n) ==
    /\ now = T0
    /\ global503Status = FALSE
    /\ pendingRequests = [k \in Keys |-> NoCall]
    /\ requestTimestamps = [e \in Endpoints |-> 0]
    /\ isApiBlocked = FALSE
    /\ apiIsDown = FALSE
    /\ healthCheckInProgress = FALSE
    /\ lastHealthCheckTime = 0
    /\ failedEndpoints = {}
    /\ endpointFailureTimes = [e \in Endpoints |-> 0]
    /\ globalRequestBlocked = FALSE
    /\ globalBlockTime = 0
    /\ modalState = NoModal
    /\ lastModalShowTime = 0
    /\ modalStateListeners = <<>>
    /\ notified = NoneNotified
    /\ instPending = [k \in Keys |-> NoCall]
    /\ requestTimeouts = [k \in Keys |-> NoTimer]
    /\ timers = {}
    /\ pageApiCalls = <<>>
    /\ apiCache = [k \in CacheKeys |-> NoEntry]
    /\ calls = [c \in 1..n |-> IdleCall]
    /\ hist = NoHist
    /\ backoffRun = NoRun
    /\ pageCache = [p \in PageCaches |-> [k \in PageKeys |-> NoPage]]
    /\ pageRead = NoRead
    /\ pageLoad = NoLoad
    /\ jwtAuth = NoAuth
    /\ jwtRead = NoAccess
    /\ envSources = NoSources
    /\ envConfig = NotLoaded
    /\ navStore = NoItem
    /\ navLoad = NoNav
    /\ globalCheck = NoGlobalCheck
    /\ healthFlow = NoHealthFlow
    /\ logoutRun = NoLogout

Init == InitWith(MaxCalls)


\* ------------------------------------------------------------ notifier
\* Array.from(new Set(list)): the first occurrence of each element, in order
RECURSIVE ArrayFromSet(_)
ArrayFromSet(list) ==
    IF list = <<>> THEN <<>>
    ELSE LET init == ArrayFromSet(SubSeq(list, 1, Len(list) - 1))
             last == list[Len(list)]
         IN  IF \E i \in 1..Len(init) : init[i] = last THEN init
             ELSE Append(init, last)

\* the position of the first listener that throws, Len + 1 when none does
FirstThrowing(ls) ==
    IF \E i \in 1..Len(ls) : ls[i] \in ThrowingListeners
    THEN CHOOSE i \in 1..Len(ls) : /\ ls[i] \in ThrowingListeners
                                   /\ \A j \in 1..(i - 1) : ls[j] \notin ThrowingListeners
    ELSE Len(ls) + 1

\* a forEach without the try / catch around each listener
notifyModalStateListeners_NoCatch(g) ==
    LET ls == g.modalStateListeners
        n == FirstThrowing(ls)
    IN  [g EXCEPT !.notified.called = @ \o SubSeq(ls, 1, IF n > Len(ls) THEN Len(ls) ELSE n),
                  !.notified.uncaught = @ \/ n <= Len(ls)]

\* every listener is called in insertion order; what one throws is caught
notifyModalStateListeners(g) ==
    [g EXCEPT !.notified.called = @ \o g.modalStateListeners]

showApiFailureModal_Replace(g, eps, is503, onClose) ==
    IF g.now - g.lastModalShowTime < modalCooldown THEN g
    ELSE notifyModalStateListeners(
             [g EXCEPT !.modalState = [isVisible |-> TRUE,
                                       failedEndpoints |-> ArrayFromSet(eps),
                                       is503Error |-> is503, onClose |-> onClose],
                       !.lastModalShowTime = g.now])

showApiFailureModal(g, eps, is503, onClose) ==
    IF g.modalState.isVisible THEN g
    ELSE IF g.now - g.lastModalShowTime < modalCooldown THEN g
    ELSE notifyModalStateListeners(
             [g EXCEPT !.modalState = [isVisible |-> TRUE,
                                       failedEndpoints |-> ArrayFromSet(eps),
                                       is503Error |-> is503, onClose |-> onClose],
                       !.lastModalShowTime = g.now])

hideApiFailureModal(g) ==
    notifyModalStateListeners([g EXCEPT !.modalState = NoModal])

\* the onClose handler of getApiFailureModalProps():
\* `this.hideApiFailureModal(); if (this.modalState.onClose) this.modalState.onClose()`
onCloseHandler(g) ==
    LET hidden == hideApiFailureModal(g)
    IN  IF hidden.modalState.onClose # NoCallback
        THEN [hidden EXCEPT !.hist.notifierOp.closed = @ + 1]
        ELSE hidden

trackApiCall(g, endpoint) ==
    IF \E i \in 1..Len(g.pageApiCalls) : g.pageApiCalls[i] = endpoint THEN g
    ELSE [g EXCEPT !.pageApiCalls = Append(g.pageApiCalls, endpoint)]

\* ------------------------------------------- global block, circuit breaker
\* operators that both answer and mutate return [ret |-> answer, g |-> state]
isGlobalRequestBlocked(g) ==
    IF ~g.globalRequestBlocked THEN [ret |-> FALSE, g |-> g]
    ELSE IF g.now - g.globalBlockTime > globalBlockCooldown
         THEN [ret |-> FALSE,
               g |-> [g EXCEPT !.globalRequestBlocked = FALSE, !.globalBlockTime = 0]]
         ELSE [ret |-> TRUE, g |-> g]

\* a variant that raises the flag without stamping the time
activateGlobalRequestBlock_NoStamp(g) ==
    [g EXCEPT !.globalRequestBlocked = TRUE]

activateGlobalRequestBlock(g) ==
    [g EXCEPT !.globalRequestBlocked = TRUE, !.globalBlockTime = g.now]

isEndpointInCircuitBreaker(g, endpoint) ==
    IF endpoint \notin g.failedEndpoints THEN [ret |-> FALSE, g |-> g]
    ELSE IF g.now - g.endpointFailureTimes[endpoint] > endpointCooldown
         THEN [ret |-> FALSE,
               g |-> [g EXCEPT !.failedEndpoints = @ \ {endpoint},
                               !.endpointFailureTimes[endpoint] = 0]]
         ELSE [ret |-> TRUE, g |-> g]

addEndpointToCircuitBreaker(g, endpoint) ==
    [g EXCEPT !.failedEndpoints = @ \cup {endpoint},
              !.endpointFailureTimes[endpoint] = g.now]

\* ------------------------------------------------------- rate limiting
shouldThrottleRequest(g, endpoint) ==
    IF g.now - g.requestTimestamps[endpoint] < MIN_REQUEST_INTERVAL
    THEN [ret |-> TRUE, g |-> g]
    ELSE [ret |-> FALSE, g |-> [g EXCEPT !.requestTimestamps[endpoint] = g.now]]

\* ------------------------------------------- the instance's registry
isRequestPending(g, requestKey) == g.instPending[requestKey] # NoCall

addPendingRequest(g, requestKey, c) ==
    LET timeout == [key |-> requestKey, at |-> g.now + pendingRequestTimeout, by |-> c]
    IN  [g EXCEPT !.instPending[requestKey] = c,
                  !.timers = @ \cup {timeout},
                  !.requestTimeouts[requestKey] = timeout]

removePendingRequest(g, requestKey) ==
    [g EXCEPT !.instPending[requestKey] = NoCall,
              !.timers = @ \ {g.requestTimeouts[requestKey]},
              !.requestTimeouts[requestKey] = NoTimer]

\* ------------------------------------------------------ consent gate
\* checkConsentMiddleware throws iff the client's API-blocked flag is set
checkConsentMiddleware(g) == g.isApiBlocked

\* ------------------------------------------------------------ retries
\* isRetryableError, on the errors of this model: "timeout" is the Error
\* thrown for a non-2xx answer whose message holds 'timeout' (HTTP 504:
\* Gateway Timeout), "local503" the statusCode-503 Error thrown by the
\* global-503 check, "err" any other thrown HTTP error
isRetryableError(error) == error \in {"timeout", "local503"}

Min(a, b) == IF a <= b THEN a ELSE b

\* the delay retryWithBackoff waits after the failure of attempt number attempt
Delay_Linear(attempt, jitter) ==
    Min(baseDelay * (attempt + 1) + jitter, maxDelay)

Delay(attempt, jitter) == Min(baseDelay * (2 ^ attempt) + jitter, maxDelay)

\* criticalEndpoints.some(critical => endpoint.includes(critical)):
\* '/v0/serviceAreas' does not include '/v0/service-areas'
shouldRetryEndpoint(endpoint) == endpoint \in {HEALTH, SERVICES, LOCATIONS}

\* ------------------------------------------------- starting the network
\* the endpoint and options of the request a call is currently running: its
\* own, or makeRequest('/v0/health') while it runs checkHealth
Target(r) == IF r.lvl = "probe" THEN HEALTH ELSE r.ep
TargetKey(r) == IF r.lvl = "probe" THEN getRequestKey(HEALTH, NoOptions)
                ELSE getRequestKey(r.ep, r.opt)

\* the running request goes through makePublicRequestInternal
isPublic(r) == r.api = "makePublicRequest" /\ r.lvl = "main"

\* the running request is the one the caller asked for (not the probe that
\* the health gate runs on its behalf)
isOwn(r) == r.lvl = "main" \/ r.api = "checkHealth"

\* executeRequest / executePublicRequest up to `await fetch(url, config)`
executeRequest(g, c) ==
    [g EXCEPT !.calls[c].st = "fetch", !.calls[c].on = NoCall,
              !.calls[c].sent = IF isOwn(g.calls[c]) THEN @ + 1 ELSE @,
              !.calls[c].net = IF g.calls[c].lvl = "main" THEN TRUE ELSE @,
              !.calls[c].bearer = g.calls[c].lvl = "main" /\ g.calls[c].requireAuth,
              !.calls[c].probed = IF g.calls[c].lvl = "probe" THEN TRUE ELSE @]

executeRequestWithDeduplication(g0, c) ==
    LET endpoint == Target(g0.calls[c])
        requestKey == TargetKey(g0.calls[c])
        g == trackApiCall(g0, endpoint)
        th == shouldThrottleRequest(g, endpoint)
    IN  IF g.pendingRequests[requestKey] # NoCall
        THEN [g EXCEPT !.calls[c].st = "joinM",
                       !.calls[c].on = g.pendingRequests[requestKey]]
        ELSE IF th.ret
        THEN [th.g EXCEPT !.calls[c].st = "throttle",
                          !.calls[c].wake = g.now + MIN_REQUEST_INTERVAL]
        ELSE [executeRequest(startObserved(th.g, endpoint), c)
                  EXCEPT !.pendingRequests[requestKey] = c]

\* the tail of makeRequestInternal / makePublicRequestInternal: build the
\* request promise (executeRequestWithRetry, first attempt), register it,
\* return it
StartRequest(g, c) ==
    LET first == [g EXCEPT !.calls[c].attempt = 0]
        started == IF isPublic(g.calls[c])
                   THEN executeRequest(first, c)
                   ELSE executeRequestWithDeduplication(first, c)
    IN  addPendingRequest([started EXCEPT !.calls[c].pc = "net"],
                          TargetKey(g.calls[c]), c)

Settle(g, c, res, val) ==
    [g EXCEPT !.calls[c].pc = "done", !.calls[c].st = "none",
              !.calls[c].on = NoCall, !.calls[c].gate = "none",
              !.calls[c].lvl = "main",
              !.calls[c].res = res, !.calls[c].val = val]

\* a variant that throws the 503 answers like the other non-2xx answers
Outcome_Throw503(r) == IF r = "ok" THEN "ok" ELSE "rej_err"

\* how a settled request reaches a caller of makeRequest / makePublicRequest
Outcome(r) ==
    CASE r = "ok" -> "ok" [] r = "s503" -> "data503" [] OTHER -> "rej_err"

\* a property the delivered value does not have
NoField == "undefined"

\* the failures the gates of makeRequestInternal / makePublicRequestInternal
\* build themselves
GateFailures ==
    {"rej_global503", "rej_globalblock", "rej_breaker", "rej_consent", "rej_health"}

\* the statusCode and is503Error of what a call delivers: the gates' Error
\* objects and the 503 payloads have both, `new Error(errorMessage)` for the
\* other non-2xx answers has a message only
FailureShape(res) ==
    IF res \in GateFailures \cup {"data503"}
    THEN [statusCode |-> "503", is503Error |-> TRUE]
    ELSE [statusCode |-> NoField, is503Error |-> NoField]

\* ------------------------------------------------------ response cache
\* getLocations after `await this.makeRequest(...)` resolved with result:
\* `if (result) apiCache.cacheApiResponse(LOCATIONS, result, 15 * 60 * 1000)`
getLocationsReturn(g, c, result) ==
    IF g.calls[c].api = "getLocations"
    THEN [g EXCEPT !.apiCache[LOCATIONS] =
                       [val |-> result, at |-> g.now, ttl |-> locationsCacheTtl]]
    ELSE g

\* util/apiCache, as used by checkHealth and the cached getters
getCachedApiResponse(g, key) ==
    IF g.apiCache[key].val = "none" THEN [ret |-> "none", g |-> g]
    ELSE IF g.now - g.apiCache[key].at <= g.apiCache[key].ttl
         THEN [ret |-> g.apiCache[key].val, g |-> g]
         ELSE [ret |-> "none", g |-> [g EXCEPT !.apiCache[key] = NoEntry]]

cacheApiResponse(g, key, result, ttl) ==
    [g EXCEPT !.apiCache[key] = [val |-> result, at |-> g.now, ttl |-> ttl]]

\* ------------------------------------------------------- health gate
\* what the caller does with the answer of `await this.checkApiHealth()`
AfterHealthGate(g, c, healthy) ==
    IF healthy
    THEN StartRequest([g EXCEPT !.calls[c].lvl = "main", !.calls[c].gate = "none"], c)
    ELSE LET endpoint == g.calls[c].ep
             blocked == activateGlobalRequestBlock(g)
             tripped == addEndpointToCircuitBreaker(blocked, endpoint)
             shown == showApiFailureModal(tripped, <<endpoint>>, TRUE, NoCallback)
         IN  Settle(shown, c, "rej_health", NoCall)

\* checkApiHealth after `await this.checkHealth()`: healthResult is "ok", the
\* 503 payload "s503", or "thrown" when checkHealth rejected
HealthVerdict(g, c, healthResult) ==
    LET down == [g EXCEPT !.apiIsDown = TRUE, !.global503Status = TRUE,
                          !.healthCheckInProgress = FALSE,
                          !.hist.downAt = g.now]
        up ==   [g EXCEPT !.apiIsDown = FALSE, !.healthCheckInProgress = FALSE]
    IN  IF healthResult = "ok" THEN AfterHealthGate(up, c, TRUE)
        ELSE AfterHealthGate(down, c, FALSE)

\* checkHealth returns result to its caller: the health gate of call c, or
\* the code that called checkHealth() itself
checkHealthReturn(g, c, result) ==
    IF g.calls[c].api = "checkHealth"
    THEN Settle(g, c, IF result = "thrown" THEN "health_failed" ELSE Outcome(result),
                NoCall)
    ELSE HealthVerdict(g, c, result)

\* checkHealth after retryWithBackoff resolved with the answer r
checkHealthSettled(g, c, r) ==
    checkHealthReturn(cacheApiResponse(g, HEALTH, r, healthCacheTtl), c, r)

\* the catch block of checkHealth
checkHealthFailed(g, c) ==
    checkHealthReturn([g EXCEPT !.global503Status = TRUE], c, "thrown")

\* retryWithBackoff in checkHealth, after makeRequest('/v0/health') rejected
checkHealthRetry(g, c, error, jitter) ==
    LET attempt == g.calls[c].healthAttempt
    IN  IF ~isRetryableError(error) \/ attempt = maxRetries
        THEN checkHealthFailed(g, c)
        ELSE [g EXCEPT !.calls[c].pc = "net", !.calls[c].st = "healthBackoff",
                       !.calls[c].on = NoCall,
                       !.calls[c].wake = g.now + Delay(attempt, jitter),
                       !.calls[c].healthAttempt = attempt + 1]

\* --------------------------------------------------- the request entry
\* makeRequestInternal('/v0/health'), as called by checkHealth, up to its
\* first suspension point: the checks that exempt the health endpoint are
\* skipped, the global-503 check is not
HealthRequest(g0, c, jitter) ==
    LET requestKey == getRequestKey(HEALTH, NoOptions)
        g == trackApiCall(g0, HEALTH)
    IN  IF g.global503Status
        THEN checkHealthRetry(
                 [showApiFailureModal(g, <<HEALTH>>, TRUE, NoCallback) EXCEPT !.calls[c].refused = TRUE],
                 c, "local503", jitter)
        ELSE IF isRequestPending(g, requestKey)
        THEN [g EXCEPT !.calls[c].pc = "net", !.calls[c].st = "joinI",
                       !.calls[c].on = g.instPending[requestKey]]
        ELSE StartRequest(g, c)

\* checkHealth up to its first suspension point
checkHealth(g0, c, jitter) ==
    LET cached == getCachedApiResponse(g0, HEALTH)
    IN  IF cached.ret # "none"
        THEN IF g0.calls[c].api = "checkHealth"
             THEN Settle(cached.g, c, Outcome(cached.ret), NoCall)
             ELSE [cached.g EXCEPT !.calls[c].pc = "gate", !.calls[c].gate = cached.ret]
        ELSE HealthRequest([cached.g EXCEPT !.calls[c].lvl = "probe",
                                            !.calls[c].healthAttempt = 0], c, jitter)

\* checkApiHealth up to its first suspension point
checkApiHealth(g0, c, jitter) ==
    LET inCooldown == g0.apiIsDown
                      /\ g0.now - g0.lastHealthCheckTime < healthCheckCooldown
        g == [g0 EXCEPT !.apiIsDown = FALSE]
    IN  IF inCooldown \/ g.healthCheckInProgress
        THEN [(IF inCooldown THEN g0 ELSE g) EXCEPT
                  !.calls[c].pc = "gate", !.calls[c].gate = "false"]
        ELSE checkHealth([g EXCEPT !.healthCheckInProgress = TRUE,
                                   !.lastHealthCheckTime = g.now], c, jitter)

\* a variant without the test of the global 503 flag
RequestInternal_NoGlobal503Check(g0, c, jitter) ==
    LET endpoint == g0.calls[c].ep
        pub == isPublic(g0.calls[c])
        requestKey == getRequestKey(endpoint, g0.calls[c].opt)
        g == trackApiCall(g0, endpoint)
        blk == isGlobalRequestBlocked(g)
        cb == isEndpointInCircuitBreaker(blk.g, endpoint)
    IN  IF isRequestPending(g, requestKey)
        THEN [g EXCEPT !.calls[c].pc = "net", !.calls[c].st = "joinI",
                       !.calls[c].on = g.instPending[requestKey]]
        ELSE IF blk.ret
        THEN Settle(IF pub THEN blk.g ELSE showApiFailureModal(blk.g, <<endpoint>>, TRUE, NoCallback),
                    c, "rej_globalblock", NoCall)
        ELSE IF cb.ret
        THEN Settle(IF pub THEN cb.g ELSE showApiFailureModal(cb.g, <<endpoint>>, TRUE, NoCallback),
                    c, "rej_breaker", NoCall)
        ELSE IF checkConsentMiddleware(cb.g)
        THEN Settle(cb.g, c, "rej_consent", NoCall)
        ELSE checkApiHealth(cb.g, c, jitter)

\* a variant that has no gate and probes the backend for every call
RequestInternal_ProbeEveryCall(g0, c, jitter) ==
    StartRequest([trackApiCall(g0, g0.calls[c].ep) EXCEPT
                      !.healthCheckInProgress = TRUE,
                      !.lastHealthCheckTime = g0.now,
                      !.calls[c].lvl = "probe", !.calls[c].healthAttempt = 0], c)

\* makeRequestInternal and makePublicRequestInternal up to the first
\* suspension point.  The two bodies are the same text except that the public
\* one shows no notification for the global block and the circuit breaker,
\* and sends through executePublicRequest.
RequestInternal(g0, c, jitter) ==
    LET endpoint == g0.calls[c].ep
        pub == isPublic(g0.calls[c])
        requestKey == getRequestKey(endpoint, g0.calls[c].opt)
        g == trackApiCall(g0, endpoint)
        blk == isGlobalRequestBlocked(g)
        cb == isEndpointInCircuitBreaker(blk.g, endpoint)
    IN  IF g.global503Status
        THEN Settle(showApiFailureModal(g, <<endpoint>>, TRUE, NoCallback), c, "rej_global503", NoCall)
        ELSE IF isRequestPending(g, requestKey)
        THEN [g EXCEPT !.calls[c].pc = "net", !.calls[c].st = "joinI",
                       !.calls[c].on = g.instPending[requestKey]]
        ELSE IF blk.ret
        THEN Settle(IF pub THEN blk.g ELSE showApiFailureModal(blk.g, <<endpoint>>, TRUE, NoCallback),
                    c, "rej_globalblock", NoCall)
        ELSE IF cb.ret
        THEN Settle(IF pub THEN cb.g ELSE showApiFailureModal(cb.g, <<endpoint>>, TRUE, NoCallback),
                    c, "rej_breaker", NoCall)
        ELSE IF checkConsentMiddleware(cb.g)
        THEN Settle(cb.g, c, "rej_consent", NoCall)
        ELSE checkApiHealth(cb.g, c, jitter)

makeRequestInternal(g, c, jitter) == RequestInternal(g, c, jitter)
makePublicRequestInternal(g, c, jitter) == RequestInternal(g, c, jitter)

\* getLocations up to its first suspension point
getLocations_NoCacheCheck(g0, c, jitter) == makeRequestInternal(g0, c, jitter)

getLocations(g0, c, jitter) ==
    LET cached == getCachedApiResponse(g0, LOCATIONS)
    IN  IF cached.ret # "none"
        THEN [Settle(cached.g, c, Outcome(cached.ret), NoCall) EXCEPT
                  !.calls[c].hit = TRUE]
        ELSE makeRequestInternal(cached.g, c, jitter)

\* the state resetHealthGate leaves behind
GateCleared ==
    /\ ~apiIsDown /\ ~healthCheckInProgress /\ lastHealthCheckTime = 0
    /\ failedEndpoints = {} /\ ~globalRequestBlocked
    /\ \A k \in Keys : instPending[k] = NoCall

\* what holds when a call is issued, kept with the call for the properties
Observe(endpoint, options) ==
    [consent |-> isApiBlocked,
     inWindow |-> hist.downAt # 0 /\ now - hist.downAt <= globalBlockCooldown,
     recover |-> /\ apiIsDown /\ ~isApiBlocked
                 /\ now - lastHealthCheckTime >= healthCheckCooldown,
     cleared |-> hist.everReset /\ hist.downAt # 0 /\ GateCleared /\ ~isApiBlocked,
     conc |-> {d \in Calls : /\ calls[d].pc \in {"gate", "net"}
                             /\ calls[d].api = "makeRequest"
                             /\ getRequestKey(calls[d].ep, calls[d].opt)
                                  = getRequestKey(endpoint, options)}]

\* the pages with a data loader, and the routes each loads after its health
\* check (the route lists of the loaders, cut down to the modelled endpoints)
PageNames == {"home", "about"}
PageRoutes(page) ==
    IF page = "home" THEN <<SERVICES, SERVICE_AREAS>> ELSE <<SERVICES>>

\* Promise.allSettled: status === 'rejected'
Rejected(res) == res \notin {"ok", "data503"}

\* reason?.message?.includes('503') for the errors the client rejects with
messageIncludes503(res) ==
    res \in {"rej_global503", "rej_globalblock", "rej_breaker", "rej_health",
             "rej_consent"}

\* the loader's `await` has what it waits for
LoaderResumable ==
    \/ pageLoad.pc = "health" /\ calls[1].pc = "done"
    \/ /\ pageLoad.pc = "calls"
       /\ \A i \in 1..Len(PageRoutes(pageLoad.page)) : calls[i + 1].pc = "done"

\* a continuation queued as a microtask: it runs before any timer or response
\* a checkHealth awaited inside performGlobalHealthCheck has settled
GlobalCheckResumable ==
    \E c \in globalCheck.awaiting : calls[c].pc = "done"

\* the checkHealth awaited inside checkHealthWithCache has settled
HealthFlowResumable ==
    healthFlow.pc = "health" /\ calls[healthFlow.slot].pc = "done"

\* the makeRequest awaited inside logout has settled
LogoutResumable ==
    logoutRun.pc = "await" /\ calls[logoutRun.slot].pc = "done"

MicrotaskPending ==
    \/ \E c \in Calls : calls[c].pc = "gate"
    \/ LoaderResumable
    \/ GlobalCheckResumable
    \/ HealthFlowResumable
    \/ LogoutResumable

\* a call of one of the client's methods
IssueWith(c, api, endpoint, options, requireAuth) ==
    /\ calls[c].pc = "idle"
    /\ \A d \in Calls : d < c => calls[d].pc # "idle"
    /\ \E jitter \in Jitters :
         LET g == [State EXCEPT
                     !.calls[c].api = api,
                     !.calls[c].requireAuth = requireAuth,
                     !.calls[c].ep = endpoint, !.calls[c].opt = options,
                     !.calls[c].at = IF api = "getLocations" THEN now ELSE @,
                     !.calls[c].pre = Observe(endpoint, options)]
         IN  Commit(CASE api = "makeRequest" -> makeRequestInternal(g, c, jitter)
                      [] api = "getLocations" -> getLocations(g, c, jitter)
                      [] api = "makePublicRequest" -> makePublicRequestInternal(g, c, jitter)
                      [] OTHER -> checkHealth(g, c, jitter))

Issue(c, api, endpoint, options) == IssueWith(c, api, endpoint, options, FALSE)

\* getPrivateServices(): makeRequest(API_ENDPOINTS.PRIVATE.SERVICES, {}, true)
getPrivateServices(c) == IssueWith(c, "makeRequest", SERVICES, NoOptions, TRUE)

\* makeRequest(endpoint, options)
makeRequest(c) ==
    \E endpoint \in RequestEndpoints, options \in Options :
        Issue(c, "makeRequest", endpoint, options)

\* makePublicRequest(endpoint, options)
makePublicRequest(c) ==
    \E endpoint \in PublicRequestEndpoints, options \in Options :
        Issue(c, "makePublicRequest", endpoint, options)

\* api.getLocations()
GetLocations(c) == Issue(c, "getLocations", LOCATIONS, NoOptions)

\* apiCache.clear(), from the console commands
clearCache ==
    /\ apiCache' = [k \in CacheKeys |-> NoEntry]
    /\ calls' = [c \in Calls |-> IF calls[c].pc = "idle" THEN calls[c]
                                  ELSE [calls[c] EXCEPT !.wiped = TRUE]]
    /\ UNCHANGED <<now, global503Status, pendingRequests, requestTimestamps,
                   isApiBlocked, apiIsDown, healthCheckInProgress,
                   lastHealthCheckTime, failedEndpoints, endpointFailureTimes,
                   globalRequestBlocked, globalBlockTime, modalState,
                   lastModalShowTime, modalStateListeners, notified,
                   instPending, requestTimeouts, timers,
                   pageApiCalls, hist, standalone>>

\* api.checkHealth(), called by the pages themselves
HealthCheck(c) == Issue(c, "checkHealth", HEALTH, NoOptions)

\* the continuation of `await this.checkApiHealth()` when checkApiHealth
\* answered without touching the network
GateResume(c) ==
    /\ calls[c].pc = "gate"
    /\ Commit(IF calls[c].gate = "false"
              THEN AfterHealthGate(State, c, FALSE)
              ELSE HealthVerdict(State, c, calls[c].gate))

\* the timer of the rate limiter: executeRequestWithDeduplication resumes
\* after `await new Promise(r => setTimeout(r, MIN_REQUEST_INTERVAL))`
ThrottleWake(c) ==
    /\ ~MicrotaskPending
    /\ calls[c].pc = "net" /\ calls[c].st = "throttle"
    /\ calls[c].wake <= now
    /\ Commit([executeRequest(startObserved(State, Target(calls[c])), c) EXCEPT
                  !.pendingRequests[TargetKey(calls[c])] = c,
                  !.calls[c].wake = 0])

\* the backoff timer of retryWithBackoff in executeRequestWithRetry: the
\* next attempt of executeRequestWithDeduplication
RetryWake(c) ==
    /\ ~MicrotaskPending
    /\ calls[c].pc = "net" /\ calls[c].st = "backoff"
    /\ calls[c].wake <= now
    /\ Commit(executeRequestWithDeduplication([State EXCEPT !.calls[c].wake = 0], c))

\* the backoff timer of retryWithBackoff in checkHealth: the next
\* makeRequest('/v0/health')
HealthRetryWake(c) ==
    /\ ~MicrotaskPending
    /\ calls[c].pc = "net" /\ calls[c].st = "healthBackoff"
    /\ calls[c].wake <= now
    /\ \E jitter \in Jitters :
         Commit(HealthRequest([State EXCEPT !.calls[c].wake = 0], c, jitter))

\* the 30 s safety timer set by addPendingRequest
SafetyTimer(t) ==
    /\ ~MicrotaskPending
    /\ t \in timers /\ t.at <= now
    /\ instPending' = [instPending EXCEPT ![t.key] = NoCall]
    /\ requestTimeouts' = [requestTimeouts EXCEPT ![t.key] = NoTimer]
    /\ timers' = timers \ {t}
    /\ UNCHANGED <<now, global503Status, pendingRequests, requestTimestamps,
                   isApiBlocked, apiIsDown, healthCheckInProgress,
                   lastHealthCheckTime, failedEndpoints, endpointFailureTimes,
                   globalRequestBlocked, globalBlockTime, modalState,
                   lastModalShowTime, modalStateListeners, notified,
                   pageApiCalls, apiCache, calls, hist,
                   standalone>>

resetHealthGateFields ==
    /\ apiIsDown' = FALSE
    /\ healthCheckInProgress' = FALSE
    /\ lastHealthCheckTime' = 0
    /\ failedEndpoints' = {}
    /\ endpointFailureTimes' = [e \in Endpoints |-> 0]
    /\ globalRequestBlocked' = FALSE
    /\ globalBlockTime' = 0
    /\ instPending' = [k \in Keys |-> NoCall]
    /\ timers' = {}
    /\ requestTimeouts' = [k \in Keys |-> NoTimer]
    /\ hist' = [hist EXCEPT !.everReset = TRUE]
    /\ UNCHANGED <<now, global503Status, pendingRequests, requestTimestamps,
                   isApiBlocked, modalState, lastModalShowTime, modalStateListeners, notified,
                   pageApiCalls,
                   apiCache, calls>>

resetHealthGate == resetHealthGateFields /\ UNCHANGED standalone

setApiBlocked(isBlocked) ==
    /\ isApiBlocked # isBlocked
    /\ isApiBlocked' = isBlocked
    /\ UNCHANGED <<now, global503Status, pendingRequests, requestTimestamps,
                   apiIsDown, healthCheckInProgress, lastHealthCheckTime,
                   failedEndpoints, endpointFailureTimes, globalRequestBlocked,
                   globalBlockTime, modalState, lastModalShowTime, modalStateListeners, notified,
                   instPending,
                   requestTimeouts, timers, pageApiCalls, apiCache, calls, hist,
                   standalone>>


\* ---------------------------------------------------- network response
\* the promise call x awaits (makeRequest's, or the one it joined in the
\* instance's registry) settles with r, the answer of the fetch of call f
Deliver(g, x, r, f, jitter) ==
    IF g.calls[x].lvl = "probe"
    THEN IF r \in {"ok", "s503"} THEN checkHealthSettled(g, x, r)
         ELSE checkHealthRetry(g, x, r, jitter)
    ELSE getLocationsReturn(Settle(g, x, Outcome(r), f), x, r)

RECURSIVE DeliverAll(_, _, _, _, _)
DeliverAll(g, S, r, f, jitter) ==
    IF S = {} THEN g
    ELSE LET x == CHOOSE y \in S : \A z \in S : y <= z
         IN  DeliverAll(Deliver(g, x, r, f, jitter), S \ {x}, r, f, jitter)

\* the callers that joined the promise of call x in the instance's registry
Sharing(g, x) == {c \in DOMAIN g.calls : /\ g.calls[c].pc = "net"
                                         /\ g.calls[c].st = "joinI"
                                         /\ g.calls[c].on = x}

\* executeRequestWithDeduplication of call x settled with r.  Under
\* executeRequestWithRetry a retryable error starts the backoff of the next
\* attempt; otherwise the promise built by makeRequestInternal /
\* makePublicRequestInternal settles: its `finally` removes the registry
\* entry, and x and the callers sharing its promise continue
AttemptSettled(g, x, r, f, jitter) ==
    LET call == g.calls[x]
        thrown == r \notin {"ok", "s503"}
        retry == /\ thrown /\ ~isPublic(call) /\ shouldRetryEndpoint(Target(call))
                 /\ isRetryableError(r) /\ call.attempt < maxRetries
    IN  IF retry
        THEN [g EXCEPT !.calls[x].st = "backoff", !.calls[x].on = NoCall,
                       !.calls[x].wake = g.now + Delay(call.attempt, jitter),
                       !.calls[x].attempt = call.attempt + 1]
        ELSE DeliverAll(removePendingRequest(g, TargetKey(call)),
                        {x} \cup Sharing(g, x), r, f, jitter)

RECURSIVE AttemptSettledAll(_, _, _, _, _)
AttemptSettledAll(g, S, r, f, jitter) ==
    IF S = {} THEN g
    ELSE LET x == CHOOSE y \in S : \A z \in S : y <= z
         IN  AttemptSettledAll(AttemptSettled(g, x, r, f, jitter), S \ {x}, r, f, jitter)

\* the fetch of call f is answered with r: executeRequest /
\* executePublicRequest finish, the `finally` of
\* executeRequestWithDeduplication deletes the module's registry entry, and
\* every caller awaiting the fetch continues
NetResponse(f, r) ==
    /\ ~MicrotaskPending
    /\ calls[f].pc = "net" /\ calls[f].st = "fetch"
    /\ r = "timeout" => hist.timeouts < MaxTimeouts
    /\ \E jitter \in Jitters :
         LET viaDedup == ~isPublic(calls[f])
             direct == {f} \cup {c \in Calls : /\ calls[c].pc = "net"
                                               /\ calls[c].st = "joinM"
                                               /\ calls[c].on = f}
             g1 == [State EXCEPT
                      !.global503Status = IF r = "s503" THEN TRUE ELSE @,
                      !.hist.everFailed = IF r # "ok" THEN TRUE ELSE @,
                      !.hist.timeouts = IF r = "timeout" THEN @ + 1 ELSE @,
                      !.calls[f].got = IF isOwn(calls[f]) THEN @ \cup {r} ELSE @,
                      !.pendingRequests[TargetKey(calls[f])] =
                          IF viaDedup THEN NoCall ELSE @]
         IN  Commit(AttemptSettledAll(g1, direct, r, f, jitter))

\* the user closes the notification
HideModal ==
    /\ modalState.isVisible
    /\ Commit(hideApiFailureModal(State))

\* ---------------------------------------------- the notifier on its own
\* addModalStateListener(listener): Set.add
addModalStateListener(l) ==
    /\ \A i \in 1..Len(modalStateListeners) : modalStateListeners[i] # l
    /\ modalStateListeners' = Append(modalStateListeners, l)
    /\ UNCHANGED <<now, global503Status, pendingRequests, requestTimestamps,
                   isApiBlocked, apiIsDown, healthCheckInProgress,
                   lastHealthCheckTime, failedEndpoints, endpointFailureTimes,
                   globalRequestBlocked, globalBlockTime, modalState,
                   lastModalShowTime, notified, instPending, requestTimeouts,
                   timers, pageApiCalls, apiCache, calls, hist, standalone>>

\* removeModalStateListener(listener): Set.delete
removeModalStateListener(l) ==
    /\ \E i \in 1..Len(modalStateListeners) : modalStateListeners[i] = l
    /\ modalStateListeners' = SelectSeq(modalStateListeners, LAMBDA x : x # l)
    /\ UNCHANGED <<now, global503Status, pendingRequests, requestTimestamps,
                   isApiBlocked, apiIsDown, healthCheckInProgress,
                   lastHealthCheckTime, failedEndpoints, endpointFailureTimes,
                   globalRequestBlocked, globalBlockTime, modalState,
                   lastModalShowTime, notified, instPending, requestTimeouts,
                   timers, pageApiCalls, apiCache, calls, hist, standalone>>

\* a failure event: showApiFailureModal(failedEndpoints, is503Error, onClose)
ShowNotification(eps, is503, onClose) ==
    /\ hist.notifierOp.n < MaxNotifierOps
    /\ Commit(showApiFailureModal(
                  [State EXCEPT !.notified = NoneNotified,
                                !.hist.notifierOp =
                                    [kind |-> "show", n |-> @.n + 1, eps |-> eps,
                                     is503 |-> is503, onClose |-> onClose,
                                     closed |-> 0]],
                  eps, is503, onClose))

\* hideApiFailureModal()
HideNotification ==
    /\ hist.notifierOp.n < MaxNotifierOps
    /\ Commit(hideApiFailureModal(
                  [State EXCEPT !.notified = NoneNotified,
                                !.hist.notifierOp =
                                    [NoOp EXCEPT !.kind = "hide",
                                                 !.n = hist.notifierOp.n + 1]]))

\* the user closes the notification: getApiFailureModalProps().onClose()
CloseNotification ==
    /\ hist.notifierOp.n < MaxNotifierOps
    /\ Commit(onCloseHandler(
                  [State EXCEPT !.notified = NoneNotified,
                                !.hist.notifierOp =
                                    [NoOp EXCEPT !.kind = "close",
                                                 !.onClose = modalState.onClose,
                                                 !.n = hist.notifierOp.n + 1]]))

\* time passes around the cooldown of the notifier
NotifierTick(d) ==
    /\ now + d <= T0 + NotifierHorizon
    /\ now' = now + d
    /\ UNCHANGED <<client, standalone>>

NotifierSteps == {modalCooldown - 1}
                 \cup (IF (now - T0) % (modalCooldown - 1) < NotifierWindow
                       THEN {1} ELSE {})

\* ------------------------------------------- retryWithBackoff on its own
\* what the wrapped operation can do: resolve, or throw an error of one of
\* the kinds the client produces
FnOutcomes == {"ok", "timeout", "local503", "err"}
\* Math.random() * 1000, in whole milliseconds
jitterSpan == 1000
BackoffJitters == {0, jitterSpan \div 2, jitterSpan - 1}

\* `for (let attempt = 0; ...) { try { return await fn();`
retryWithBackoffInvoke(r) ==
    [r EXCEPT !.phase = "calling", !.invoked = @ + 1]

\* the settlement of `await fn()`: the return, or the catch block
retryWithBackoffSettle_RetryAll(r, o, jitter, t) ==
    IF o = "ok"
    THEN [r EXCEPT !.phase = "returned", !.out = <<o, r.attempt>>]
    ELSE LET e == [r EXCEPT !.lastError = <<o, r.attempt>>,
                            !.errs = Append(@, <<o, r.attempt>>)]
         IN  IF r.attempt = maxRetries
             THEN [e EXCEPT !.phase = "thrown", !.out = e.lastError]
             ELSE [e EXCEPT !.phase = "waiting", !.waits = @ + 1,
                            !.delay = Delay(r.attempt, jitter), !.failedAt = t,
                            !.wake = t + Delay(r.attempt, jitter)]

retryWithBackoffSettle(r, o, jitter, t) ==
    IF o = "ok"
    THEN [r EXCEPT !.phase = "returned", !.out = <<o, r.attempt>>]
    ELSE LET e == [r EXCEPT !.lastError = <<o, r.attempt>>,
                            !.errs = Append(@, <<o, r.attempt>>)]
         IN  IF ~isRetryableError(o) \/ r.attempt = maxRetries
             THEN [e EXCEPT !.phase = "thrown", !.out = e.lastError]
             ELSE [e EXCEPT !.phase = "waiting", !.waits = @ + 1,
                            !.delay = Delay(r.attempt, jitter), !.failedAt = t,
                            !.wake = t + Delay(r.attempt, jitter)]

\* a caller starts retryWithBackoff(fn, context)
RetryStart ==
    /\ backoffRun.phase = "idle"
    /\ backoffRun' = retryWithBackoffInvoke(backoffRun)
    /\ UNCHANGED <<now, client, pageCache, pageRead, components>>

\* fn settles with o
FnSettles(o, jitter) ==
    /\ backoffRun.phase = "calling"
    /\ backoffRun' = retryWithBackoffSettle(backoffRun, o, jitter, now)
    /\ UNCHANGED <<now, client, pageCache, pageRead, components>>

\* the setTimeout(resolve, delay) of the backoff fires: next iteration
BackoffElapsed ==
    /\ backoffRun.phase = "waiting" /\ backoffRun.wake <= now
    /\ backoffRun' = retryWithBackoffInvoke([backoffRun EXCEPT !.attempt = @ + 1])
    /\ UNCHANGED <<now, client, pageCache, pageRead, components>>

\* ------------------------------------------------------ the page caches
\* get(key) of HomePageCache / AboutPageCache, at time t on the map m
PageCacheGet_NeverExpires(p, m, key, t) ==
    [ret |-> m[key].data, m |-> m]

PageCacheGet(p, m, key, t) ==
    LET cached == m[key]
    IN  IF cached = NoPage THEN [ret |-> "null", m |-> m]
        ELSE IF t - cached.timestamp > CACHE_DURATION(p)
        THEN [ret |-> "null", m |-> [m EXCEPT ![key] = NoPage]]
        ELSE [ret |-> cached.data, m |-> m]

\* set(key, data)
PageSet(p, key, data) ==
    /\ pageCache' = [pageCache EXCEPT ![p][key] = [data |-> data, timestamp |-> now]]
    /\ UNCHANGED <<now, client, backoffRun, pageRead, components>>

\* get(key)
PageGet(p, key) ==
    LET r == PageCacheGet(p, pageCache[p], key, now)
    IN  /\ pageCache' = [pageCache EXCEPT ![p] = r.m]
        /\ pageRead' = [cache |-> p, key |-> key, ret |-> r.ret, at |-> now,
                        before |-> pageCache[p][key], after |-> r.m[key]]
        /\ UNCHANGED <<now, client, backoffRun, components>>

\* clear()
PageClear(p) ==
    /\ pageCache' = [pageCache EXCEPT ![p] = [k \in PageKeys |-> NoPage]]
    /\ UNCHANGED <<now, client, backoffRun, pageRead, components>>

\* HomePageCache.clearExpired()
PageClearExpired ==
    /\ pageCache' = [pageCache EXCEPT !["HomePageCache"] =
                        [k \in PageKeys |->
                            IF @[k] # NoPage /\ now - @[k].timestamp > HOME_CACHE_DURATION
                            THEN NoPage ELSE @[k]]]
    /\ UNCHANGED <<now, client, backoffRun, pageRead, components>>

\* time passes while the pages are open
PageTick(d) ==
    /\ now + d <= T0 + PageHorizon
    /\ now' = now + d
    /\ UNCHANGED <<client, standalone>>

PageSteps == {HOME_CACHE_DURATION}
             \cup (IF (now - T0) % HOME_CACHE_DURATION < PageWindow THEN {1} ELSE {})

\* --------------------------------------------------------------- time
Deadlines == {t.at : t \in timers}
             \cup {calls[c].wake : c \in {d \in Calls : calls[d].st \in
                                       {"throttle", "backoff", "healthBackoff"}}}
             \cup (IF backoffRun.phase = "waiting" THEN {backoffRun.wake} ELSE {})

\* time passes on the scale of the response cache
CacheTick(d) ==
    /\ ~MicrotaskPending
    /\ d > 0
    /\ now + d <= T0 + CacheHorizon
    /\ \A D \in Deadlines : now + d <= D
    /\ now' = now + d
    /\ UNCHANGED <<client, standalone>>

CacheSteps == {locationsCacheTtl} \cup {D - now : D \in Deadlines}
              \cup (IF (now - T0) % locationsCacheTtl < CacheWindow THEN {1} ELSE {})

Tick(d) ==
    /\ ~MicrotaskPending
    /\ d > 0
    /\ now + d <= T0 + MaxElapsed
    /\ \A D \in Deadlines : now + d <= D
    /\ now' = now + d
    /\ UNCHANGED <<global503Status, pendingRequests, requestTimestamps, isApiBlocked,
                   apiIsDown, healthCheckInProgress, lastHealthCheckTime,
                   failedEndpoints, endpointFailureTimes, globalRequestBlocked,
                   globalBlockTime, modalState, lastModalShowTime, modalStateListeners, notified,
                   instPending,
                   requestTimeouts, timers, pageApiCalls, apiCache, calls, hist,
                   standalone>>

Steps == {BigStep} \cup {D - now : D \in Deadlines}
         \cup (IF (now - T0) % BigStep < SmallWindow THEN {SmallStep} ELSE {})

Next ==
    \/ \E c \in Calls : makeRequest(c)
    \/ \E c \in Calls : makePublicRequest(c)
    \/ \E c \in Calls : HealthCheck(c)
    \/ \E c \in Calls : GateResume(c)
    \/ \E c \in Calls : ThrottleWake(c)
    \/ \E c \in Calls : HealthRetryWake(c)
    \/ \E c \in Calls, r \in Responses : NetResponse(c, r)
    \/ \E t \in timers : SafetyTimer(t)
    \/ resetHealthGate
    \/ \E b \in BOOLEAN : setApiBlocked(b)
    \/ HideModal
    \/ \E d \in Steps : Tick(d)

Spec == Init /\ [][Next]_vars

\* the same client in front of a backend that also answers with retryable
\* errors
NextRetry ==
    \/ Next
    \/ \E c \in Calls, r \in RetryableResponses : NetResponse(c, r)
    \/ \E c \in Calls : RetryWake(c)

SpecRetry == Init /\ [][NextRetry]_vars

\* the client under getServices() and getPrivateServices(), which request
\* the same method, path and body
NextAuth ==
    \/ \E c \in Calls : makeRequest(c)
    \/ \E c \in Calls : getPrivateServices(c)
    \/ \E c \in Calls : GateResume(c)
    \/ \E c \in Calls : ThrottleWake(c)
    \/ \E c \in Calls, r \in Responses : NetResponse(c, r)
    \/ \E d \in Steps : Tick(d)

SpecAuth == Init /\ [][NextAuth]_vars

\* the client under repeated calls of getServices()
NextThrottle ==
    \/ \E c \in Calls : makeRequest(c)
    \/ \E c \in Calls : GateResume(c)
    \/ \E c \in Calls : ThrottleWake(c)
    \/ \E c \in Calls, r \in Responses : NetResponse(c, r)
    \/ \E d \in Steps : Tick(d)

SpecThrottle == InitWith(MaxThrottleCalls) /\ [][NextThrottle]_vars

\* retryWithBackoff around an arbitrary operation
NextBackoff ==
    \/ RetryStart
    \/ \E o \in FnOutcomes, j \in BackoffJitters : FnSettles(o, j)
    \/ BackoffElapsed
    \/ \E d \in Steps : Tick(d)

SpecBackoff == Init /\ [][NextBackoff]_vars

\* the client under calls of getLocations over the lifetime of its cache entry
NextCache ==
    \/ \E c \in Calls : GetLocations(c)
    \/ \E c \in Calls : GateResume(c)
    \/ \E c \in Calls, r \in Responses : NetResponse(c, r)
    \/ \E c \in Calls : ThrottleWake(c)
    \/ \E t \in timers : SafetyTimer(t)
    \/ clearCache
    \/ \E d \in CacheSteps : CacheTick(d)

SpecCache == InitWith(MaxCacheCalls) /\ [][NextCache]_vars

\* the failure notifier under failure events, closings and listeners
NextNotifier ==
    \/ \E l \in Listeners : addModalStateListener(l)
    \/ \E l \in Listeners : removeModalStateListener(l)
    \/ \E eps \in FailedLists, is503 \in BOOLEAN, onClose \in Callbacks :
           ShowNotification(eps, is503, onClose)
    \/ HideNotification
    \/ \E d \in NotifierSteps : NotifierTick(d)

SpecNotifier == Init /\ [][NextNotifier]_vars

\* the notifier with a user who closes it through the handler of its props
NextClose ==
    \/ NextNotifier
    \/ CloseNotification

SpecClose == Init /\ [][NextClose]_vars

\* the page caches under reads, writes and the passing of time
NextPages ==
    \/ \E p \in PageCaches, k \in PageKeys : \E d \in PageData(k) : PageSet(p, k, d)
    \/ \E p \in PageCaches, k \in PageKeys : PageGet(p, k)
    \/ \E p \in PageCaches : PageClear(p)
    \/ PageClearExpired
    \/ \E d \in PageSteps : PageTick(d)

SpecPages == Init /\ [][NextPages]_vars

\* ------------------------------------------------- page-data loaders
\* api.makeRequest(endpoint) / api.checkHealth() from inside a loader
Call(g0, c, api, endpoint, options, jitter) ==
    LET g == [g0 EXCEPT !.calls[c].api = api, !.calls[c].ep = endpoint,
                        !.calls[c].opt = options,
                        !.calls[c].pre = Observe(endpoint, options)]
    IN  IF api = "makeRequest" THEN makeRequestInternal(g, c, jitter)
        ELSE checkHealth(g, c, jitter)

\* the calls handed to Promise.allSettled, issued in order
RECURSIVE callRoutes(_, _, _, _)
callRoutes(g, routes, i, jitter) ==
    IF i > Len(routes) THEN g
    ELSE callRoutes(Call(g, i + 1, "makeRequest", routes[i], NoOptions, jitter),
                    routes, i + 1, jitter)

\* routes.forEach(route => api.trackApiCall(route))
RECURSIVE trackRoutes(_, _, _)
trackRoutes(g, routes, i) ==
    IF i > Len(routes) THEN g
    ELSE trackRoutes(trackApiCall(g, routes[i]), routes, i + 1)

\* getHomePageData / getAboutPageData up to `await api.checkHealth()`
getPageData(page) ==
    /\ pageLoad.pc = "idle"
    /\ \A c \in Calls : calls[c].pc = "idle"
    /\ Len(PageRoutes(page)) < Cardinality(Calls)
    /\ \E jitter \in Jitters :
         CommitClient(Call([State EXCEPT !.pageApiCalls = <<>>], 1, "checkHealth",
                           HEALTH, NoOptions, jitter))
    /\ pageLoad' = [pageLoad EXCEPT !.pc = "health", !.page = page]
    /\ UNCHANGED <<backoffRun, pageCache, pageRead, flowVars, jwtVars, envVars, navVars>>

\* ... after the health check settled: the catch branch, or the calls of the
\* page's routes
PageHealthSettled ==
    /\ pageLoad.pc = "health" /\ calls[1].pc = "done"
    /\ LET routes == PageRoutes(pageLoad.page)
           failedAll == showApiFailureModal(trackRoutes(State, routes, 1),
                                            routes, TRUE, NoCallback)
       IN  IF Rejected(calls[1].res)
           THEN /\ CommitClient(failedAll)
                /\ pageLoad' = [pageLoad EXCEPT
                       !.pc = "done",
                       !.shown = ~modalState.isVisible /\ failedAll.modalState.isVisible]
           ELSE /\ \E jitter \in Jitters :
                     CommitClient(callRoutes(State, routes, 1, jitter))
                /\ pageLoad' = [pageLoad EXCEPT !.pc = "calls"]
    /\ UNCHANGED <<backoffRun, pageCache, pageRead, flowVars, jwtVars, envVars, navVars>>

\* ... after Promise.allSettled: collect the failed endpoints of this page
\* and show the notification for them
PageDataSettled ==
    /\ pageLoad.pc = "calls"
    /\ LET routes == PageRoutes(pageLoad.page)
           idx == [i \in 1..Len(routes) |-> i]
           rejected(i) == Rejected(calls[i + 1].res)
           failedIdx == SelectSeq(idx, rejected)
           failed == [j \in 1..Len(failedIdx) |-> routes[failedIdx[j]]]
           has503Error == \E j \in 1..Len(failedIdx) :
                              messageIncludes503(calls[failedIdx[j] + 1].res)
           after == IF Len(failed) > 0
                    THEN showApiFailureModal(State, failed, has503Error, NoCallback)
                    ELSE State
       IN  /\ \A i \in 1..Len(routes) : calls[i + 1].pc = "done"
           /\ CommitClient(after)
           /\ pageLoad' = [pageLoad EXCEPT
                  !.pc = "done",
                  !.shown = ~modalState.isVisible /\ after.modalState.isVisible]
    /\ UNCHANGED <<backoffRun, pageCache, pageRead, flowVars, jwtVars, envVars, navVars>>

\* -------------------------------------------- performGlobalHealthCheck
\* a caller calls performGlobalHealthCheck(): it is handed the promise in
\* global503CheckPromise if there is one; otherwise the body starts
\* api.checkHealth() and its promise is stored
PerformGlobalHealthCheck ==
    LET found == globalCheck.promise
    IN  /\ ~MicrotaskPending
        /\ IF found # NoCall
           THEN /\ globalCheck' = [globalCheck EXCEPT !.found = globalCheck.value,
                                                      !.fresh = FALSE]
                /\ UNCHANGED <<now, client>>
           ELSE \E c \in Calls, jitter \in Jitters :
                  /\ calls[c].pc = "idle"
                  /\ \A d \in Calls : d < c => calls[d].pc # "idle"
                  /\ CommitClient(Call(State, c, "checkHealth", HEALTH, NoOptions,
                                       jitter))
                  /\ globalCheck' = [globalCheck EXCEPT
                         !.promise = c, !.value = "pending",
                         !.awaiting = @ \cup {c},
                         !.found = IF found = NoCall THEN "none" ELSE globalCheck.value,
                         !.fresh = TRUE]
        /\ UNCHANGED <<backoffRun, pageCache, pageRead, loaderVars, jwtVars,
                       envVars, navVars, healthFlow, logoutRun>>

\* ... after `await api.checkHealth()`: setGlobal503Status from the result,
\* and the promise of the check resolves
GlobalCheckSettled(c) ==
    LET healthy == calls[c].res = "ok"
    IN  /\ c \in globalCheck.awaiting /\ calls[c].pc = "done"
        /\ CommitClient([State EXCEPT !.global503Status = ~healthy])
        /\ globalCheck' = [globalCheck EXCEPT
               !.awaiting = @ \ {c},
               !.value = IF globalCheck.promise # c THEN @
                         ELSE IF healthy THEN "true" ELSE "false"]
        /\ UNCHANGED <<backoffRun, pageCache, pageRead, loaderVars, jwtVars,
                       envVars, navVars, healthFlow, logoutRun>>

\* resetGlobal503Status()
resetGlobal503Status ==
    /\ ~MicrotaskPending
    /\ CommitClient([State EXCEPT !.global503Status = FALSE])
    /\ globalCheck' = [globalCheck EXCEPT !.promise = NoCall, !.value = "none"]
    /\ UNCHANGED <<backoffRun, pageCache, pageRead, loaderVars, jwtVars,
                   envVars, navVars, healthFlow, logoutRun>>

\* the client under callers of performGlobalHealthCheck
NextGlobalCheck ==
    \/ PerformGlobalHealthCheck
    \/ \E c \in Calls : GlobalCheckSettled(c)
    \/ resetGlobal503Status
    \/ \E c \in Calls, r \in Responses : NetResponse(c, r)
    \/ \E c \in Calls : HealthRetryWake(c)
    \/ \E d \in Steps : Tick(d)

SpecGlobalCheck == InitWith(MaxGlobalChecks) /\ [][NextGlobalCheck]_vars

\* ------------------------------------- the health-check middleware
HEALTH_CHECK_CACHE_DURATION == 30000

\* checkHealthWithCache: "use cached result if recent"
healthCacheValid(f, t) ==
    f.healthStatus # "unknown" /\ t - f.healthCheckTime < HEALTH_CHECK_CACHE_DURATION

\* withHealthCheck after `await this.checkHealthWithCache()`
withHealthCheckRest(g, f, isHealthy) ==
    IF ~isHealthy
    THEN [g |-> showApiFailureModal(trackRoutes(g, f.allRoutes, 1),
                                    <<HEALTH>> \o f.allRoutes, TRUE, NoCallback),
          f |-> [f EXCEPT !.pc = "done", !.isHealthy = FALSE, !.rejected = TRUE,
                          !.asked = <<HEALTH>> \o f.allRoutes, !.asked503 = TRUE]]
    ELSE [g |-> g,
          f |-> [f EXCEPT !.pc = "done", !.isHealthy = TRUE, !.invoked = TRUE]]

\* getServicesRoute after checkHealthWithCache returned inside
\* healthCheckMiddleware: the rest of the middleware, then the controller,
\* which settles with o
getServicesRouteRest(g, f, isHealthy, o) ==
    LET allFailedRoutes == <<HEALTH>> \o g.pageApiCalls
        reported == [f EXCEPT !.status = 503, !.nextErr = TRUE,
                              !.asked = allFailedRoutes, !.asked503 = TRUE]
        after == IF isHealthy THEN f ELSE reported
    IN  [g |-> IF isHealthy THEN g
               ELSE showApiFailureModal(g, allFailedRoutes, TRUE, NoCallback),
         f |-> [after EXCEPT !.pc = "done", !.isHealthy = isHealthy,
                             !.invoked = TRUE,
                             !.status = IF o = "resolve" THEN 200 ELSE @,
                             !.rejected = o = "reject"]]

ControllerOutcomes == {"resolve", "reject"}
FlowKinds == {"withHealthCheck", "route"}
FlowRoutes == {<<>>, <<SERVICES, SERVICE_AREAS>>}

HealthFlowRest(g, f, isHealthy, o) ==
    IF f.kind = "withHealthCheck" THEN withHealthCheckRest(g, f, isHealthy)
    ELSE getServicesRouteRest(g, f, isHealthy, o)

\* withHealthCheck(endpoint, apiCall, allRoutes) or getServicesRoute(req, res,
\* next) is called, up to the await in checkHealthWithCache
HealthFlowStart(kind, allRoutes) ==
    LET f == [NoHealthFlow EXCEPT !.healthStatus = healthFlow.healthStatus,
                                  !.healthCheckTime = healthFlow.healthCheckTime,
                                  !.kind = kind, !.allRoutes = allRoutes,
                                  !.at = now]
    IN  /\ ~MicrotaskPending
        /\ healthFlow.pc \in {"idle", "done"}
        /\ kind = "route" => allRoutes = <<>>
        /\ IF healthCacheValid(f, now)
           THEN \E o \in ControllerOutcomes :
                  LET r == HealthFlowRest(State, f, f.healthStatus = "healthy", o)
                  IN  CommitClient(r.g) /\ healthFlow' = r.f
           ELSE \E c \in Calls, jitter \in Jitters :
                  /\ calls[c].pc = "idle"
                  /\ \A d \in Calls : d < c => calls[d].pc # "idle"
                  /\ CommitClient(Call(State, c, "checkHealth", HEALTH, NoOptions,
                                       jitter))
                  /\ healthFlow' = [f EXCEPT !.pc = "health", !.slot = c]
        /\ UNCHANGED <<backoffRun, pageCache, pageRead, loaderVars, jwtVars,
                       envVars, navVars, globalCheck, logoutRun>>

\* ... after `await this.checkHealth()` in checkHealthWithCache: the try or
\* the catch branch, then the caller's rest
HealthFlowSettled ==
    /\ healthFlow.pc = "health" /\ calls[healthFlow.slot].pc = "done"
    /\ LET thrown == Rejected(calls[healthFlow.slot].res)
           f == [healthFlow EXCEPT
                    !.healthStatus = IF thrown THEN "unhealthy" ELSE "healthy",
                    !.healthCheckTime = healthFlow.at]
           g == IF thrown THEN trackApiCall(State, HEALTH) ELSE State
       IN  \E o \in ControllerOutcomes :
             LET r == HealthFlowRest(g, f, ~thrown, o)
             IN  CommitClient(r.g) /\ healthFlow' = r.f
    /\ UNCHANGED <<backoffRun, pageCache, pageRead, loaderVars, jwtVars,
                   envVars, navVars, globalCheck, logoutRun>>

\* the client under withHealthCheck and the home-page route handlers
NextHealthFlow ==
    \/ \E kind \in FlowKinds, allRoutes \in FlowRoutes :
           HealthFlowStart(kind, allRoutes)
    \/ HealthFlowSettled
    \/ \E c \in Calls, r \in Responses : NetResponse(c, r)
    \/ \E c \in Calls : HealthRetryWake(c)
    \/ \E d \in Steps : Tick(d)

SpecHealthFlow == InitWith(MaxFlowCalls) /\ [][NextHealthFlow]_vars

\* the client under one run of a page-data loader
NextLoader ==
    \/ \E page \in PageNames : getPageData(page)
    \/ PageHealthSettled
    \/ PageDataSettled
    \/ \E c \in Calls : GateResume(c)
    \/ \E c \in Calls, r \in Responses : NetResponse(c, r)
    \/ \E b \in BOOLEAN : setApiBlocked(b)
    \/ HideModal
    \/ \E d \in Steps : Tick(d)

SpecLoader == InitWith(MaxLoaderCalls) /\ [][NextLoader]_vars

\* ------------------------------------------------------ JWTAuthManager
\* the tokens the sign-in stores: one token string, expiring before, at or
\* after any modelled time
JwtTokens == [token : {"t1"}, expiresAt : (T0 - 1)..(T0 + JwtHorizon)]

\* clearToken(): this.token = null; localStorage.removeItem(key)
clearToken(a) == [a EXCEPT !.token = NoToken, !.stored = NoToken]

\* loadStoredToken(), run by the constructor at time t
loadStoredToken(a, t) ==
    IF a.stored = NoToken THEN a
    ELSE LET parsed == [a EXCEPT !.token = a.stored]
         IN  IF parsed.token.expiresAt < t THEN clearToken(parsed) ELSE parsed

\* setToken(tokenData)
setToken(a, tokenData) == [a EXCEPT !.token = tokenData, !.stored = tokenData]

\* a variant that hands out the token whatever its expiry
getToken_NoExpiry(a, t) ==
    IF a.token = NoToken THEN [ret |-> "null", a |-> clearToken(a)]
    ELSE [ret |-> a.token.token, a |-> a]

\* getToken() at time t
getToken(a, t) ==
    IF a.token = NoToken \/ a.token.expiresAt < t
    THEN [ret |-> "null", a |-> clearToken(a)]
    ELSE [ret |-> a.token.token, a |-> a]

\* isAuthenticated(): this.getToken() !== null
isAuthenticated(a, t) ==
    LET r == getToken(a, t)
    IN  [ret |-> IF r.ret # "null" THEN "true" ELSE "false", a |-> r.a]

\* getAuthHeaders(): { Authorization: `Bearer ${token}` } or {}
getAuthHeaders(a, t) ==
    LET r == getToken(a, t)
    IN  [ret |-> IF r.ret # "null" THEN "Bearer" ELSE "{}", a |-> r.a]

\* an earlier visit left a token in localStorage
JwtStored(tokenData) ==
    /\ ~jwtAuth.instance
    /\ jwtAuth' = [jwtAuth EXCEPT !.stored = tokenData]
    /\ UNCHANGED <<now, client, backoffRun, pageCache, pageRead, flowVars, loaderVars,
                   jwtRead, envVars, navVars>>

\* the access `what` of the manager, recorded with the state before and after
JwtAccess(what, r) ==
    /\ jwtAuth' = r.a
    /\ jwtRead' = [op |-> what, ret |-> r.ret, at |-> now,
                   before |-> jwtAuth, after |-> r.a]
    /\ UNCHANGED <<now, client, backoffRun, pageCache, pageRead, flowVars, loaderVars,
                   envVars, navVars>>

\* JWTAuthManager.getInstance(), the first time: the constructor
JwtGetInstance ==
    /\ ~jwtAuth.instance
    /\ JwtAccess("load", [ret |-> "null",
                          a |-> [loadStoredToken(jwtAuth, now) EXCEPT !.instance = TRUE]])

JwtSetToken(tokenData) ==
    /\ jwtAuth.instance
    /\ JwtAccess("setToken", [ret |-> "null", a |-> setToken(jwtAuth, tokenData)])

JwtGetToken == jwtAuth.instance /\ JwtAccess("getToken", getToken(jwtAuth, now))

JwtIsAuthenticated ==
    jwtAuth.instance /\ JwtAccess("isAuthenticated", isAuthenticated(jwtAuth, now))

JwtGetAuthHeaders ==
    jwtAuth.instance /\ JwtAccess("getAuthHeaders", getAuthHeaders(jwtAuth, now))

JwtClearToken ==
    jwtAuth.instance /\ JwtAccess("clearToken", [ret |-> "null", a |-> clearToken(jwtAuth)])

\* ---------------------------------------------------------- logout
\* a logout that clears the token only when the server accepted the logout
logoutSettle_OnSuccessOnly(a, res) ==
    IF res = "ok" THEN [a |-> clearToken(a), rejected |-> FALSE]
    ELSE [a |-> a, rejected |-> TRUE]

\* logout() after the await: the catch swallows the error, the finally
\* clears the token
logoutSettle(a, res) == [a |-> clearToken(a), rejected |-> FALSE]

\* logout() up to `await this.makeRequest(AUTH.LOGOUT, {method: 'POST'}, true)`
Logout ==
    /\ ~MicrotaskPending
    /\ jwtAuth.instance /\ logoutRun.pc \in {"idle", "done"}
    /\ \E c \in Calls, jitter \in Jitters :
         /\ calls[c].pc = "idle"
         /\ \A d \in Calls : d < c => calls[d].pc # "idle"
         /\ CommitClient(Call([State EXCEPT !.calls[c].requireAuth = TRUE], c,
                              "makeRequest", LOGOUT, LogoutOptions, jitter))
         /\ logoutRun' = [NoLogout EXCEPT !.pc = "await", !.slot = c,
                                          !.had = jwtAuth.token # NoToken]
    /\ UNCHANGED <<now, backoffRun, pageCache, pageRead, loaderVars, jwtVars,
                   envVars, navVars, globalCheck, healthFlow>>

\* ... after the request settled
LogoutSettled ==
    /\ logoutRun.pc = "await" /\ calls[logoutRun.slot].pc = "done"
    /\ LET r == logoutSettle(jwtAuth, calls[logoutRun.slot].res)
       IN  /\ jwtAuth' = r.a
           /\ logoutRun' = [logoutRun EXCEPT
                  !.pc = "done", !.rejected = r.rejected,
                  !.authed = isAuthenticated(r.a, now).ret]
    /\ UNCHANGED <<now, client, backoffRun, pageCache, pageRead, loaderVars,
                   jwtRead, envVars, navVars, globalCheck, healthFlow>>

\* the client and its token manager under login and logout
NextLogout ==
    \/ \E tokenData \in JwtTokens : JwtStored(tokenData)
    \/ JwtGetInstance
    \/ \E tokenData \in JwtTokens : JwtSetToken(tokenData)
    \/ Logout
    \/ LogoutSettled
    \/ \E c \in Calls : GateResume(c)
    \/ \E c \in Calls, r \in Responses : NetResponse(c, r)
    \/ \E b \in BOOLEAN : setApiBlocked(b)

SpecLogout == InitWith(MaxLogoutCalls) /\ [][NextLogout]_vars

\* time passes
JwtTick ==
    /\ now < T0 + JwtHorizon
    /\ now' = now + 1
    /\ UNCHANGED <<client, standalone>>

NextJwt ==
    \/ \E tokenData \in JwtTokens : JwtStored(tokenData)
    \/ JwtGetInstance
    \/ \E tokenData \in JwtTokens : JwtSetToken(tokenData)
    \/ JwtGetToken
    \/ JwtIsAuthenticated
    \/ JwtGetAuthHeaders
    \/ JwtClearToken
    \/ JwtTick

SpecJwt == Init /\ [][NextJwt]_vars

\* ------------------------------------------------ getEnvironmentConfig
\* 'http://', 'https://' and the default 'https://localhost:3000'
HTTP == <<"h", "t", "t", "p", ":", "/", "/">>
HTTPS == <<"h", "t", "t", "p", "s", ":", "/", "/">>
DEFAULT_API_URL ==
    HTTPS \o <<"l", "o", "c", "a", "l", "h", "o", "s", "t", ":", "3", "0", "0", "0">>

\* the values a source holds for a key: nothing, a bare host, a URL, a URL
\* with its scheme in capitals
EnvValues(k) ==
    IF EnvKeys[k] = "VITE_API_URL"
    THEN {<<>>, <<"a", "p", "i">>, HTTPS \o <<"a">>,
          <<"H", "T", "T", "P", ":", "/", "/", "a">>}
    ELSE {<<>>, <<"b">>}

\* the place can be read on this host: import.meta.env and the window
\* globals need a window, process.env needs a process
Readable(src, p) ==
    IF EnvPlaces[p] = "process.env" THEN src.process ELSE src.window

\* getEnvVar(key): the first readable place that holds a non-empty value
RECURSIVE getEnvVarFrom(_, _, _)
getEnvVarFrom(src, k, p) ==
    IF p > Len(EnvPlaces) THEN <<>>
    ELSE IF Readable(src, p) /\ src.vars[k][p] # <<>> THEN src.vars[k][p]
    ELSE getEnvVarFrom(src, k, p + 1)

getEnvVar(src, k) == getEnvVarFrom(src, k, 1)

\* String.prototype.startsWith, and the letters the i flag folds
startsWith(str, prefix) ==
    Len(str) >= Len(prefix) /\ SubSeq(str, 1, Len(prefix)) = prefix
toLowerCase(ch) ==
    CASE ch = "H" -> "h" [] ch = "T" -> "t" [] ch = "P" -> "p" [] ch = "S" -> "s"
      [] OTHER -> ch

\* /^https?:\/\//i.test(url)
hasProtocol(url) ==
    LET folded == [i \in 1..Len(url) |-> toLowerCase(url[i])]
    IN  startsWith(folded, HTTP) \/ startsWith(folded, HTTPS)

\* a variant that leaves the value as the source gave it
getEnvironmentConfig_AsGiven(src) ==
    LET first == getEnvVar(src, 1)
        second == getEnvVar(src, 2)
    IN  IF first # <<>> THEN first ELSE IF second # <<>> THEN second
        ELSE DEFAULT_API_URL

\* getEnvironmentConfig().API_URL
getEnvironmentConfig(src) ==
    LET first == getEnvVar(src, 1)
        second == getEnvVar(src, 2)
        API_URL == IF first # <<>> THEN first ELSE IF second # <<>> THEN second
                   ELSE DEFAULT_API_URL
    IN  IF API_URL # <<>> /\ ~hasProtocol(API_URL) THEN HTTP \o API_URL
        ELSE API_URL

\* the build or the host page sets a variable before the module is loaded
EnvSet(k, p, v) ==
    /\ ~envConfig.loaded
    /\ envSources' = [envSources EXCEPT !.vars[k][p] = v]
    /\ UNCHANGED <<now, client, backoffRun, pageCache, pageRead, flowVars, loaderVars,
                   jwtVars, envConfig, navVars>>

\* the host the module runs on: a browser (window), a server (process)
EnvHost(w, pr) ==
    /\ ~envConfig.loaded
    /\ envSources' = [envSources EXCEPT !.window = w, !.process = pr]
    /\ UNCHANGED <<now, client, backoffRun, pageCache, pageRead, flowVars, loaderVars,
                   jwtVars, envConfig, navVars>>

\* const ENV_CONFIG = getEnvironmentConfig()
LoadConfig ==
    /\ ~envConfig.loaded
    /\ envConfig' = [loaded |-> TRUE, API_URL |-> getEnvironmentConfig(envSources)]
    /\ UNCHANGED <<now, client, backoffRun, pageCache, pageRead, flowVars, loaderVars,
                   jwtVars, envSources, navVars>>

NextEnv ==
    \/ \E k \in 1..Len(EnvKeys), p \in 1..Len(EnvPlaces) :
           \E v \in EnvValues(k) : EnvSet(k, p, v)
    \/ \E w, pr \in BOOLEAN : EnvHost(w, pr)
    \/ LoadConfig

SpecEnv == Init /\ [][NextEnv]_vars

\* ------------------------------------------------- navigation loader
NAV_FRESH == 300000
NAV_DELAY == 100

\* a variant that never trusts the stored item
useCachedNav_Never(item, t) == item.kind = "entry" /\ item.timestamp = t + 1

\* `parsedData.timestamp && (now - parsedData.timestamp) < 5 * 60 * 1000`,
\* for an item that JSON.parse accepted
useCachedNav(item, t) ==
    item.kind = "entry" /\ item.timestamp # 0 /\ t - item.timestamp < NAV_FRESH

\* the effect of Navbar, which runs when the component mounts and when
\* isApiBlocked or the path changes, up to the await of loadNavigation
NavEffect ==
    /\ navLoad.pc \in {"idle", "done"}
    /\ navLoad.runs < MaxNavRuns
    /\ LET run == [navLoad EXCEPT !.read = navStore, !.at = now,
                                  !.runs = @ + 1, !.got = "none",
                                  !.blocked = isApiBlocked,
                                  !.apiCalls = 0, !.resets = 0, !.wrote = FALSE]
       IN  IF isApiBlocked
           THEN /\ navLoad' = [run EXCEPT !.pc = "done", !.isLoading = TRUE]
                /\ UNCHANGED <<now, client>>
           ELSE IF useCachedNav(navStore, now)
           THEN /\ navLoad' = [run EXCEPT !.pc = "done", !.isLoading = FALSE,
                                          !.navItems = navStore.items]
                /\ UNCHANGED <<now, client>>
           ELSE /\ navLoad' = [run EXCEPT !.pc = "delay", !.isLoading = TRUE,
                                          !.resets = 1, !.wake = now + NAV_DELAY]
                /\ resetHealthGateFields
    /\ UNCHANGED <<backoffRun, pageCache, pageRead, flowVars, loaderVars, jwtVars, envVars,
                   navStore>>

\* the 100 ms timer of loadNavigation fires: getMainNavigation() is called
NavDelayElapsed ==
    /\ navLoad.pc = "delay" /\ navLoad.wake <= now
    /\ navLoad' = [navLoad EXCEPT !.pc = "calling", !.apiCalls = @ + 1, !.wake = 0]
    /\ UNCHANGED <<now, client, backoffRun, pageCache, pageRead, flowVars, loaderVars,
                   jwtVars, envVars, navStore>>

\* getMainNavigation() settles: with the items, with a rate-limit error
\* (429), or with another error
NavOutcomes == {"items", "429", "err"}
NavSettled(o) ==
    /\ navLoad.pc = "calling"
    /\ IF o = "items"
       THEN /\ navStore' = [kind |-> "entry", items |-> o, timestamp |-> now]
            /\ navLoad' = [navLoad EXCEPT !.pc = "done", !.isLoading = FALSE,
                                          !.got = o,
                                          !.navItems = o, !.wrote = TRUE]
       ELSE /\ navLoad' = [navLoad EXCEPT
                              !.pc = "done", !.isLoading = FALSE, !.got = o,
                              !.navItems = IF o = "429" /\ navStore.kind = "entry"
                                           THEN navStore.items ELSE "fallback"]
            /\ UNCHANGED navStore
    /\ UNCHANGED <<now, client, backoffRun, pageCache, pageRead, flowVars, loaderVars,
                   jwtVars, envVars>>

\* the item is overwritten with text that JSON.parse rejects
NavInvalid ==
    /\ navStore.kind # "invalid"
    /\ navStore' = [kind |-> "invalid", items |-> "none", timestamp |-> 0]
    /\ UNCHANGED <<now, client, backoffRun, pageCache, pageRead, flowVars, loaderVars,
                   jwtVars, envVars, navLoad>>

\* the session ends: sessionStorage is empty again
NavSessionEnd ==
    /\ navStore.kind # "absent" /\ navLoad.pc \in {"idle", "done"}
    /\ navStore' = NoItem
    /\ UNCHANGED <<now, client, backoffRun, pageCache, pageRead, flowVars, loaderVars,
                   jwtVars, envVars, navLoad>>

\* time passes while the page is open
NavTick(d) ==
    /\ d > 0
    /\ now + d <= T0 + NavHorizon
    /\ navLoad.pc = "delay" => now + d <= navLoad.wake
    /\ now' = now + d
    /\ UNCHANGED <<client, standalone>>

NavSteps == {NAV_FRESH - 1, NAV_FRESH}
            \cup (IF navLoad.pc = "delay" THEN {navLoad.wake - now} ELSE {})
            \cup (IF (now - T0) % NAV_FRESH < NavWindow THEN {1} ELSE {})

NextNav ==
    \/ NavEffect
    \/ NavDelayElapsed
    \/ \E o \in NavOutcomes : NavSettled(o)
    \/ NavInvalid
    \/ NavSessionEnd
    \/ \E b \in BOOLEAN : setApiBlocked(b)
    \/ \E d \in NavSteps : NavTick(d)

SpecNav == Init /\ [][NextNav]_vars

TypeOK ==
    /\ now \in T0..(T0 + MaxElapsed)
    /\ \A c \in Calls : calls[c].pc \in {"idle", "gate", "net", "done"}


\* =========================================================== properties
InFlight(k) == {c \in Calls : /\ calls[c].pc = "net" /\ calls[c].st = "fetch"
                              /\ TargetKey(calls[c]) = k}
Issued(c) == calls[c].pc # "idle"
Done(c) == calls[c].pc = "done"
\* rejections synthesized by the client with statusCode 503, is503Error
ServiceUnavailable == {"rej_global503", "rej_globalblock", "rej_breaker", "rej_health"}
\* ... of which those made without consulting the backend at all
ShortCircuited == {"rej_global503", "rej_globalblock", "rej_breaker"}
isConsentBlocked(c) == calls[c].res = "rej_consent"

\* C1: in every reachable state there is at most one in-flight network call
\* per request identity (method + path + serialized body).
C1_OneInFlightPerIdentity ==
    \A k \in Keys : Cardinality(InFlight(k)) <= 1

\* C2: two makeRequest calls with the same identity, the second issued before
\* the first has settled, make exactly one network call and receive the same
\* outcome (the same resolved value or the same rejection).
C2_ConcurrentSameOutcome ==
    \A c \in Calls : \A d \in calls[c].pre.conc :
        (/\ calls[c].api = "makeRequest" /\ Done(c) /\ Done(d)
         /\ ~calls[c].pre.consent /\ ~calls[d].pre.consent) =>
            /\ calls[c].res = calls[d].res
            /\ calls[c].val = calls[d].val
            /\ ~(calls[c].net /\ calls[d].net)

\* C3: with consent not granted, every call to an endpoint other than
\* /v0/health is rejected with the consent-blocked classification and issues
\* no network request, whatever the state of the other gates.
C3_ConsentBlocked ==
    \A c \in Calls :
        (Issued(c) /\ calls[c].pre.consent /\ calls[c].ep # HEALTH) =>
            /\ Done(c) /\ isConsentBlocked(c)
            /\ ~calls[c].net /\ ~calls[c].probed

\* C4: when a call to endpoint E fails for a reason attributable to E (its
\* fetch is answered with a non-2xx status or fails to connect), E is marked
\* tripped.  This is the first step of the claim; the immediate failure of
\* later calls to E rests on it.
C4_FailureTrips ==
    [][\A c \in Calls :
          (/\ calls[c].pc = "net" /\ calls[c].st = "fetch" /\ calls[c].lvl = "main"
           /\ calls[c].ep # HEALTH
           /\ calls'[c].pc = "done" /\ calls'[c].res \in {"data503", "rej_err"})
          => calls[c].ep \in failedEndpoints']_vars

\* C5: once the backend was found down and the 30 s health cooldown has
\* elapsed, the next call to a non-health endpoint performs a fresh health
\* probe (it is not rejected locally).
C5_OptimisticRecovery ==
    \A c \in Calls :
        (Issued(c) /\ calls[c].pre.recover /\ calls[c].ep # HEALTH) =>
            /\ calls[c].res \notin ShortCircuited
            /\ calls[c].lvl = "probe" \/ calls[c].probed

\* C6: with consent granted and a backend that answers every fetch with 2xx,
\* no call is short-circuited with a service-unavailable failure, the global
\* block is not activated and no circuit breaker is tripped.
C6_HealthyRunsInParallel ==
    (/\ ~hist.everFailed
     /\ \A c, d \in Calls : (Issued(c) /\ Issued(d) /\ c # d)
                                => calls[c].ep # calls[d].ep) =>
        /\ \A c \in Calls : ~calls[c].pre.consent =>
                                calls[c].res \notin ServiceUnavailable
        /\ ~globalRequestBlocked
        /\ failedEndpoints = {}

\* C7: while a health probe started by the health gate is in flight, no
\* second health-probe network request is in flight.
C7_ProbesCoalesced ==
    (\E c \in Calls : calls[c].pc = "net" /\ calls[c].lvl = "probe")
        => Cardinality({c \in Calls : /\ calls[c].pc = "net"
                                      /\ calls[c].st = "fetch"
                                      /\ Target(calls[c]) = HEALTH}) <= 1

\* C8: when the health gate determines that the backend is down the global
\* block is active; a call to an endpoint other than /v0/health issued within
\* the following 30 s is rejected at once with a service-unavailable failure,
\* without a health probe and without a network attempt of its own; more
\* than 30 s after its activation the block is no longer active.
C8_GlobalBlockWindow ==
    /\ [][hist'.downAt # hist.downAt => isGlobalRequestBlocked(State').ret]_vars
    /\ [](\A c \in Calls :
            (Issued(c) /\ calls[c].pre.inWindow /\ calls[c].ep # HEALTH) =>
                /\ Done(c) /\ calls[c].res \in ServiceUnavailable
                /\ ~calls[c].net /\ ~calls[c].probed)
    /\ []((globalRequestBlocked /\ now - globalBlockTime > globalBlockCooldown)
            => ~isGlobalRequestBlocked(State).ret)

\* a call issued inside the window was rejected, and the window has passed
C8_Witness ==
    /\ \E c \in Calls : /\ Done(c) /\ calls[c].pre.inWindow /\ calls[c].ep # HEALTH
                         /\ calls[c].res \in ServiceUnavailable
    /\ globalRequestBlocked /\ now - globalBlockTime > globalBlockCooldown
    /\ hist.downAt = globalBlockTime

\* C11: a call to a critical endpoint (or one checkHealth call) whose every
\* network attempt was answered with a retryable status (503, 504) has made
\* exactly maxRetries + 1 network attempts when its failure is delivered.
C11_RetriesExhausted ==
    \A c \in Calls :
        (/\ Done(c) /\ calls[c].api \in {"makeRequest", "checkHealth"}
         /\ shouldRetryEndpoint(calls[c].ep)
         /\ calls[c].sent >= 1 /\ calls[c].got \subseteq {"s503", "timeout"}) =>
            calls[c].sent = maxRetries + 1

\* C12: the delay retryWithBackoff waits after failed attempt n (n = 0, 1, 2)
\* is at least baseDelay * 2^n and at most baseDelay * 2^n + 1000 ms, never
\* more than maxDelay, and the next attempt does not start before it is over.
C12_BackoffDelay ==
    /\ backoffRun.phase = "waiting" =>
          /\ backoffRun.attempt \in 0..2
          /\ backoffRun.delay >= 1000 * (2 ^ backoffRun.attempt)
          /\ backoffRun.delay <= 1000 * (2 ^ backoffRun.attempt) + 1000
          /\ backoffRun.delay <= 10000
          /\ backoffRun.wake = backoffRun.failedAt + backoffRun.delay
    /\ (backoffRun.phase = "calling" /\ backoffRun.attempt > 0) =>
          now >= backoffRun.failedAt + backoffRun.delay

\* a backoff wait after the third attempt, with jitter
C12_Witness ==
    /\ backoffRun.phase = "waiting" /\ backoffRun.attempt = 2
    /\ backoffRun.delay > 4000

\* C13: retryWithBackoff invokes the operation no further after a
\* non-retryable error and delivers that error without a backoff wait; after
\* the last retry it delivers the last error; after a success it returns that
\* attempt's result and makes no further attempt.
C13_RetryOutcomes ==
    /\ backoffRun.invoked = Len(backoffRun.errs) + (IF backoffRun.phase \in {"calling", "returned"}
                                          THEN 1 ELSE 0)
    /\ (backoffRun.errs # <<>> /\ ~isRetryableError(backoffRun.lastError[1])) =>
          /\ backoffRun.phase = "thrown" /\ backoffRun.out = backoffRun.lastError
          /\ backoffRun.lastError = backoffRun.errs[Len(backoffRun.errs)]
          /\ backoffRun.waits = Len(backoffRun.errs) - 1
    /\ Len(backoffRun.errs) = maxRetries + 1 =>
          /\ backoffRun.phase = "thrown"
          /\ backoffRun.out = backoffRun.errs[maxRetries + 1]
    /\ backoffRun.phase = "thrown" =>
          \/ ~isRetryableError(backoffRun.lastError[1])
          \/ Len(backoffRun.errs) = maxRetries + 1
    /\ backoffRun.phase = "returned" =>
          /\ backoffRun.out = <<"ok", backoffRun.attempt>>
          /\ backoffRun.invoked = backoffRun.attempt + 1
          /\ backoffRun.waits = backoffRun.attempt
    /\ backoffRun.invoked <= maxRetries + 1

\* a non-retryable error after two retried ones
C13_Witness ==
    /\ backoffRun.phase = "thrown" /\ Len(backoffRun.errs) = 3
    /\ backoffRun.lastError[1] = "err"

\* C14: the response cache holds successful responses only: no entry stores
\* a service-unavailable result (a 503 payload or a synthesized 503 object).
C14_OnlySuccessCached ==
    \A k \in CacheKeys : apiCache[k].val \in {"none", "ok"}

\* C15: a read of a page cache returns the stored value iff an entry is
\* present and now - insertedAt <= ttl; a read of an older entry is a miss
\* and removes the entry; no read returns a value older than its TTL.
C15_PageCacheRead ==
    pageRead # NoRead =>
        LET e == pageRead.before
            fresh == e # NoPage /\ pageRead.at - e.timestamp <= CACHE_DURATION(pageRead.cache)
        IN  /\ pageRead.ret = (IF fresh THEN e.data ELSE "null")
            /\ (e # NoPage /\ ~fresh) => pageRead.after = NoPage
            /\ fresh => pageRead.after = e

\* a read that found an entry older than its TTL and evicted it
C15_Witness ==
    /\ pageRead.before # NoPage
    /\ pageRead.at - pageRead.before.timestamp > CACHE_DURATION(pageRead.cache)
    /\ pageRead.after = NoPage

ShowStep == /\ hist'.notifierOp.n # hist.notifierOp.n
            /\ hist'.notifierOp.kind = "show"
HideStep == /\ hist'.notifierOp.n # hist.notifierOp.n
            /\ hist'.notifierOp.kind = "hide"
\* the notification a show that takes effect puts up
Shown(op) == [isVisible |-> TRUE, failedEndpoints |-> ArrayFromSet(op.eps),
              is503Error |-> op.is503, onClose |-> op.onClose]
Suppressed == /\ modalState' = modalState
              /\ lastModalShowTime' = lastModalShowTime
              /\ notified'.called = <<>>

\* C17: after a notification was shown, a failure event within the 5 s
\* cooldown produces no additional notification, and a failure event after
\* the cooldown has elapsed produces a new notification.
C17_CooldownThenNew ==
    [][(ShowStep /\ lastModalShowTime # 0) =>
          IF now - lastModalShowTime < modalCooldown
          THEN Suppressed
          ELSE /\ modalState' = Shown(hist'.notifierOp)
               /\ lastModalShowTime' = now]_vars

\* C18: showApiFailureModal called while a notification is visible leaves
\* the notification state and the last-shown timestamp unchanged and
\* notifies no listener.
C18_NoSecondWhileVisible ==
    [][(ShowStep /\ modalState.isVisible) => Suppressed]_vars

\* a show with other arguments, after the cooldown, while one is visible and
\* a listener is registered
C18_Witness ==
    /\ hist.notifierOp.kind = "show" /\ modalState.isVisible
    /\ now - lastModalShowTime >= modalCooldown
    /\ hist.notifierOp.is503 # modalState.is503Error
    /\ hist.notifierOp.onClose # modalState.onClose
    /\ modalStateListeners # <<>>
    /\ notified.called = <<>>

\* C19: on every notification state transition (a show that takes effect,
\* or a hide) every registered listener is invoked before the operation
\* returns; a listener that throws neither stops the remaining listeners
\* nor makes the operation fail.
C19_ListenersNotified ==
    [][(\/ HideStep
        \/ ShowStep /\ modalState' # modalState) =>
           /\ notified'.called = modalStateListeners
           /\ ~notified'.uncaught
           /\ modalStateListeners' = modalStateListeners]_vars

\* a transition notified to a throwing listener and then to another one
C19_Witness ==
    /\ hist.notifierOp.kind \in {"show", "hide"}
    /\ modalStateListeners = <<"throwing", "onModalChange">>
    /\ notified.called = <<"throwing", "onModalChange">>

\* C20: on a fresh client with consent granted, once the health endpoint has
\* answered 503, the following call to the services endpoint is settled at
\* once as service unavailable without any network attempt, and the notifier
\* is then visible with failed endpoints exactly <</v0/services>> and
\* is503Error = TRUE.
C20_ServicesAfterHealth503 ==
    [][\A c1, c2 \in Calls :
         (/\ Done(c1) /\ calls[c1].api = "checkHealth"
          /\ calls[c1].res = "data503" /\ calls[c1].got = {"s503"}
          /\ \A d \in Calls \ {c1} : calls[d].pc = "idle"
          /\ ~isApiBlocked
          /\ calls'[c2].pc # "idle" /\ calls'[c2].api = "makeRequest"
          /\ calls'[c2].ep = SERVICES) =>
            /\ Done(c2)' /\ calls'[c2].res \in ServiceUnavailable
            /\ ~calls'[c2].net /\ ~calls'[c2].probed /\ calls'[c2].sent = 0
            /\ modalState' = [isVisible |-> TRUE, failedEndpoints |-> <<SERVICES>>,
                               is503Error |-> TRUE, onClose |-> NoCallback]]_vars

\* the services call made after the health check was answered 503
C20_Witness ==
    \E c1, c2 \in Calls :
        /\ Done(c1) /\ calls[c1].api = "checkHealth" /\ calls[c1].got = {"s503"}
        /\ Done(c2) /\ calls[c2].api = "makeRequest" /\ calls[c2].ep = SERVICES
        /\ ~calls[c2].pre.consent /\ calls[c2].res = "rej_global503"
        /\ modalState.isVisible /\ modalState.failedEndpoints = <<SERVICES>>

\* C21: a failure that is a consent rejection never makes the failure
\* notification visible: not the rejected call itself, and not the page-data
\* loader that aggregates calls of which the rejected ones were all rejected
\* for consent.
C21_ConsentNeverNotified ==
    [][/\ \A c \in Calls :
             calls[c].res # "rej_consent" /\ calls'[c].res = "rej_consent"
                 => modalState'.isVisible = modalState.isVisible
       /\ (/\ pageLoad.pc = "calls" /\ pageLoad'.pc = "done"
           /\ \A i \in 1..Len(PageRoutes(pageLoad.page)) :
                  Rejected(calls[i + 1].res) => calls[i + 1].res = "rej_consent")
              => ~pageLoad'.shown]_vars

\* C22: every call of makeRequest / makePublicRequest for an endpoint that is
\* tripped and within its cooldown is rejected with the circuit-breaker
\* classification, whatever the global block and the global 503 flag are.
C22_TrippedIsCircuitBreaker ==
    [][\A c \in Calls :
          (/\ calls[c].pc = "idle" /\ calls'[c].pc # "idle"
           /\ calls'[c].api \in {"makeRequest", "makePublicRequest"}
           /\ calls'[c].ep \in failedEndpoints
           /\ now - endpointFailureTimes[calls'[c].ep] <= endpointCooldown)
              => calls'[c].pc = "done" /\ calls'[c].res = "rej_breaker"]_vars

\* the step sends a network request to /v0/health on behalf of call c
ProbeSent(c) ==
    /\ calls'[c].pc = "net" /\ calls'[c].st = "fetch"
    /\ Target(calls'[c]) = HEALTH
    /\ ~(calls[c].pc = "net" /\ calls[c].st = "fetch")

C24_HungRequestReplaced ==
    \A c \in Calls :
        (/\ ~hist.everReset
         /\ calls[c].api \in {"makeRequest", "makePublicRequest"}
         /\ calls[c].lvl = "main" /\ calls[c].pc = "net"
         /\ calls[c].st # "joinI")
            => calls[c].on \notin calls[c].pre.conc

\* C25: every failure of backend origin that makeRequest or makePublicRequest
\* delivers, returned or thrown, carries a status code and a boolean
\* service-unavailable flag.
C25_FailureShape ==
    \A c \in Calls :
        (/\ Done(c) /\ calls[c].api \in {"makeRequest", "makePublicRequest"}
         /\ calls[c].res \in {"data503", "rej_err"})
            => /\ FailureShape(calls[c].res).statusCode # NoField
               /\ FailureShape(calls[c].res).is503Error \in BOOLEAN

C27_TokenSelfInvalidating ==
    LET access == jwtRead.op \in {"getToken", "getAuthHeaders", "isAuthenticated"}
        held == jwtRead.before.token
        kept == jwtRead.before.stored
        gone == jwtRead.after.token = NoToken /\ jwtRead.after.stored = NoToken
    IN  /\ (access /\ jwtRead.ret \notin {"null", "false", "{}"})
              => held # NoToken /\ held.expiresAt >= jwtRead.at
        /\ (access /\ held # NoToken /\ held.expiresAt < jwtRead.at)
              => gone /\ jwtRead.ret \in {"null", "false", "{}"}
        /\ (jwtRead.op = "load" /\ kept # NoToken /\ kept.expiresAt < jwtRead.at)
              => gone

\* a token set while valid was asked for after its expiry
C27_Witness ==
    /\ jwtRead.op = "getAuthHeaders" /\ jwtRead.ret = "{}"
    /\ jwtRead.before.token # NoToken /\ jwtRead.before.stored # NoToken
    /\ jwtRead.before.token.expiresAt < jwtRead.at
    /\ jwtRead.before.token.expiresAt >= T0
    /\ jwtAuth.token = NoToken /\ jwtAuth.stored = NoToken

\* no source holds a value for either key
NoneSupplied ==
    \A k \in 1..Len(EnvKeys), p \in 1..Len(EnvPlaces) : envSources.vars[k][p] = <<>>

\* the values the sources hold
Supplied ==
    {envSources.vars[k][p] : k \in 1..Len(EnvKeys), p \in 1..Len(EnvPlaces)} \ {<<>>}

\* C28: for every combination of values of the configuration sources the
\* resolved API_URL is non-empty and starts with http:// or https://; it is
\* https://localhost:3000 when no source supplies a value, and a supplied
\* value that does not start with http:// or https:// is used with http://
\* prepended.
C28_ApiUrlResolved ==
    envConfig.loaded =>
        LET scheme(url) == startsWith(url, HTTP) \/ startsWith(url, HTTPS)
        IN  /\ envConfig.API_URL # <<>>
            /\ scheme(envConfig.API_URL)
            /\ NoneSupplied => envConfig.API_URL = DEFAULT_API_URL
            /\ \/ envConfig.API_URL = DEFAULT_API_URL
               \/ \E v \in Supplied :
                      envConfig.API_URL = IF scheme(v) THEN v ELSE HTTP \o v

\* C28 (amended): the same, with the scheme compared without regard to the
\* case of its letters.
C28_ApiUrlResolvedAnyCase ==
    envConfig.loaded =>
        /\ envConfig.API_URL # <<>>
        /\ hasProtocol(envConfig.API_URL)
        /\ NoneSupplied => envConfig.API_URL = DEFAULT_API_URL
        /\ \/ envConfig.API_URL = DEFAULT_API_URL
           \/ \E v \in Supplied :
                  envConfig.API_URL = IF hasProtocol(v) THEN v ELSE HTTP \o v

\* a bare host was resolved on a server, where import.meta.env is not read
C28_Witness ==
    /\ envConfig.loaded /\ ~envSources.window /\ envSources.process
    /\ envSources.vars[1][1] # <<>>
    /\ envSources.vars[1][2] = <<"a", "p", "i">>
    /\ envConfig.API_URL = HTTP \o <<"a", "p", "i">>

\* the last run of the navigation effect found an item less than 5 min old
NavFound ==
    /\ navLoad.pc # "idle" /\ navLoad.read.kind = "entry"
    /\ navLoad.at - navLoad.read.timestamp < NAV_FRESH

\* the run that found the item used it, called nothing and reset nothing
NavServedFromStore ==
    /\ navLoad.navItems = navLoad.read.items /\ ~navLoad.isLoading
    /\ navLoad.apiCalls = 0 /\ navLoad.resets = 0

\* the live API is called only without such an item, and a successful answer
\* is stored with the time of its arrival
NavCallsOnlyWhenStale ==
    /\ [](navLoad.apiCalls > 0 => ~NavFound)
    /\ [][(navLoad.pc = "calling" /\ navLoad'.pc = "done"
            /\ navLoad'.got = "items")
              => navStore' = [kind |-> "entry", items |-> navLoad'.navItems,
                              timestamp |-> now]]_vars

\* C29: when session storage holds navigation data less than 5 minutes old
\* the navigation loader uses it, calls no live API and does not reset the
\* health gate; the live API is called only when the item is absent,
\* unparsable or at least 5 minutes old, and on success the item is
\* rewritten with the current time.
C29_NavFreshUsed ==
    /\ [](NavFound => NavServedFromStore)
    /\ NavCallsOnlyWhenStale

\* C29 (amended): the same for a loader that runs with consent granted.
C29_NavFreshUsedWithConsent ==
    /\ []((NavFound /\ ~navLoad.blocked) => NavServedFromStore)
    /\ NavCallsOnlyWhenStale

\* an item written by one run was used by a later run 299999 ms later
C29_Witness ==
    /\ NavFound /\ ~navLoad.blocked /\ NavServedFromStore
    /\ navLoad.read.timestamp > T0
    /\ navLoad.at - navLoad.read.timestamp = NAV_FRESH - 1

\* the promise that call b registered under key k has not settled
Unsettled(cs, b, k) ==
    /\ cs[b].pc = "net"
    /\ cs[b].st \in {"fetch", "joinM", "throttle", "backoff"}
    /\ TargetKey(cs[b]) = k

OwnsEntry(k, b) ==
    /\ b # NoCall
    /\ instPending[k] = b
    /\ requestTimeouts[k].by = b
    /\ requestTimeouts[k] \in timers
    /\ Unsettled(calls, b, k)

EntryKept(k) ==
    /\ instPending'[k] = instPending[k]
    /\ requestTimeouts'[k] = requestTimeouts[k]
    /\ requestTimeouts[k] \in timers'

\* C30: an entry of the instance's registry, and the safety timer set with
\* it, stay in place for as long as the request that created them is in
\* flight: a step that removes the entry or the timer of a request still
\* unsettled afterwards is resetHealthGate or that request's own safety
\* timer, never the settlement of another request with the same key
C30_EntryRemovedByOwnerOnly ==
    [][\A k \in Keys : \A b \in Calls :
          (OwnsEntry(k, b) /\ Unsettled(calls', b, k) /\ ~EntryKept(k))
              => \/ resetHealthGateFields
                 \/ SafetyTimer(requestTimeouts[k])]_vars

\* the step is a call of the onClose handler of getApiFailureModalProps
CloseStep == /\ hist'.notifierOp.n # hist.notifierOp.n
             /\ hist'.notifierOp.kind = "close"

\* C31: when the notification shown carries a close callback and the user
\* closes it through the onClose handler of getApiFailureModalProps, the
\* notification is hidden afterwards and the callback was invoked exactly
\* once
C31_CloseInvokesCallback ==
    [][(CloseStep /\ modalState.isVisible /\ modalState.onClose # NoCallback)
          => /\ ~modalState'.isVisible
             /\ hist'.notifierOp.closed = 1]_vars

\* C32: a call to a non-health endpoint made on the client as constructed,
\* before setApiBlocked was ever called, is rejected as consent-blocked and
\* sends nothing
C32_ConsentGateClosedByDefault ==
    [][Init => \A c \in Calls :
                  (calls[c].pc = "idle" /\ calls'[c].pc # "idle"
                                        /\ calls'[c].api # "checkHealth")
                      => /\ calls'[c].pc = "done"
                         /\ isConsentBlocked(c)'
                         /\ ~calls'[c].net]_vars

\* C33: a caller of performGlobalHealthCheck that arrives while a check is
\* in flight starts no health check of its own, and a caller that arrives
\* after the previous check has settled starts a fresh one
C33_GlobalCheckCoalescesConcurrentOnly ==
    /\ globalCheck.found = "pending" => ~globalCheck.fresh
    /\ globalCheck.found \in {"true", "false"} => globalCheck.fresh

\* C34: a call made with requireAuth = true never settles with the answer
\* to a request that was sent without the Authorization header
C34_AuthNeverSharesUnauthenticated ==
    \A c \in Calls :
        (Done(c) /\ calls[c].requireAuth /\ calls[c].val # NoCall)
            => calls[calls[c].val].bearer

\* C35: any two consecutive network requests that
\* executeRequestWithDeduplication issues to the same endpoint start at
\* least MIN_REQUEST_INTERVAL apart
C35_RequestsSpacedByInterval ==
    \A e \in Endpoints :
        \A gap \in hist.lastGap[e] : gap >= MIN_REQUEST_INTERVAL

\* C36: a run of withHealthCheck whose health check was answered with a
\* 503 has rejected without invoking apiCall, and asked for the
\* notification of '/v0/health' followed by allRoutes with is503Error
C36_WithHealthCheckGuardsApiCall ==
    (/\ healthFlow.pc = "done" /\ healthFlow.kind = "withHealthCheck"
     /\ healthFlow.slot # NoCall /\ "s503" \in calls[healthFlow.slot].got)
        => /\ healthFlow.rejected /\ ~healthFlow.invoked
           /\ healthFlow.asked = <<HEALTH>> \o healthFlow.allRoutes
           /\ healthFlow.asked503

\* C37: a run of a home-page route handler in which healthCheckMiddleware
\* found the API unhealthy (status 503, next called with an error) has not
\* invoked the service controller and has not set the status to 200
C37_ControllerOnlyWhenHealthy ==
    (/\ healthFlow.pc = "done" /\ healthFlow.kind = "route"
     /\ ~healthFlow.isHealthy)
        => /\ ~healthFlow.invoked
           /\ healthFlow.status # 200

\* C38: once logout has settled, however the logout request ended, the
\* token in memory and the stored token are absent, isAuthenticated is false
\* and logout has not rejected
C38_LogoutAlwaysClears ==
    [][LogoutSettled => /\ jwtAuth'.token = NoToken
                        /\ jwtAuth'.stored = NoToken
                        /\ logoutRun'.authed = "false"
                        /\ ~logoutRun'.rejected]_vars

\* a logout called with a token held has settled after its request was
\* rejected by a gate of the client
C38_Witness ==
    /\ logoutRun.pc = "done" /\ logoutRun.had
    /\ calls[logoutRun.slot].res \in ShortCircuited \cup {"rej_consent"}
    /\ jwtAuth.token = NoToken

\* C9: a request to /v0/health is never rejected locally, whatever the
\* global block, the circuit breakers and the consent flag say: no
\* makeRequest('/v0/health') of any call is refused before it reaches the
\* network.
C9_HealthProbeExempt ==
    \A c \in Calls : ~calls[c].refused

\* C10: directly after resetHealthGate the next call to a non-health endpoint
\* is not rejected locally as service-unavailable but performs a fresh health
\* probe.
C10_ResetClearsDownState ==
    \A c \in Calls :
        (Issued(c) /\ calls[c].pre.cleared /\ calls[c].ep # HEALTH) =>
            /\ calls[c].res \notin ShortCircuited
            /\ calls[c].lvl = "probe" \/ calls[c].probed

====
